---- MODULE Spec2Model ----
(***************************************************************************)
(* Model of the streaming merge engine of mmdbconvert: the Accumulator    *)
(* (internal/merger/accumulator.go), the prefix arithmetic it uses        *)
(* (package network) and the Merge driver that feeds it                   *)
(* (internal/merger/merger.go).                                           *)
(*                                                                         *)
(* Addresses are AddrBits wide instead of 32/128 bits; an address is a    *)
(* record [ver, n] (IP version and numeric value), a prefix a record      *)
(* [Addr, Bits].  A data map (mmdbtype.Map) is a function from a subset   *)
(* of the column names to values.  Go maps are reference types: the       *)
(* variable heap holds the contents of every map object handed to         *)
(* Process, and the open range holds a reference into it.                 *)
(***************************************************************************)
EXTENDS Integers, Sequences, FiniteSets, TLC

(* ---- bounds of the model ---- *)
AddrBits == 3
MaxRows == 3
MaxFail == 1
MaxClientRows == 2
MaxOverwrite == 1
MaxSplits == 2

(* ---- domains ---- *)
Columns == {"iso"}
Values == {"US", "CA"}
Nil == "nil"
None == [none |-> TRUE]
NoBits == 0 - 1

\* a network follows the previous one immediately or leaves one address out
Gaps == {0, 1}

\* the int64 values, and the int values of a platform whose int is narrower
Int64s == (0 - 2)..1
NarrowInts == (0 - 1)..0

Pow2(k) == 2 ^ k
AddrCount == Pow2(AddrBits)
MaxAddrN == AddrCount - 1
Versions == {4, 6}

\* mmdbtype.Map values: column name -> value, absent columns are not keys
DataMaps == UNION {[S -> Values] : S \in SUBSET Columns}

\* a decoded reader result: every column has a value or nil
Records == [Columns -> Values \cup {Nil}]

Addr(v, k) == [ver |-> v, n |-> k]
MkPrefix(v, k, b) == [Addr |-> Addr(v, k), Bits |-> b]

\* canonical (masked) prefixes of one IP version
PrefixesFrom(v, first) ==
    UNION {{MkPrefix(v, k, b) : b \in {x \in 0..AddrBits : k % Pow2(AddrBits - x) = 0}} :
              k \in first..MaxAddrN}

\* netipx.PrefixLastIP
PrefixLastIP(prefix) ==
    Addr(prefix.Addr.ver, prefix.Addr.n + Pow2(AddrBits - prefix.Bits) - 1)

(* ---- package network ---- *)

\* netip.Addr.Next: the zero Addr (None) after the maximal address
AddrNext(a) == IF a.n = MaxAddrN THEN None ELSE Addr(a.ver, a.n + 1)

IsAdjacent_NoGapCheck(endIP, startIP) ==
    endIP.ver = startIP.ver /\ endIP.n < startIP.n

IsAdjacent_Never(endIP, startIP) == FALSE

IsAdjacent_SameVersion(endIP, startIP) == endIP.ver = startIP.ver

\* IsAdjacent: IPv4 compares end+1 == start in unsigned AddrBits-wide
\* arithmetic, IPv6 compares endIP.Next() with startIP
IsAdjacent(endIP, startIP) ==
    IF (endIP.ver = 4) # (startIP.ver = 4)
    THEN FALSE
    ELSE IF endIP.ver = 4
         THEN (endIP.n + 1) % AddrCount = startIP.n
         ELSE AddrNext(endIP) = startIP

\* IsAdjacent as the second copy of package network has it: both branches
\* compare endIP.Next() with startIP
IsAdjacentByNext(endIP, startIP) ==
    IF (endIP.ver = 4) # (startIP.ver = 4)
    THEN FALSE
    ELSE AddrNext(endIP) = startIP

(* ---- mmdbtype.Map.Equal ---- *)
dataEquals_Never(a, b) == FALSE

dataEquals(a, b) ==
    /\ DOMAIN a = DOMAIN b
    /\ \A k \in DOMAIN a : a[k] = b[k]

(* ---- netipx.IPRange.Prefixes ---- *)

\* number of leading bits a and b have in common
RECURSIVE CommonPrefixLen(_, _, _)
CommonPrefixLen(a, b, len) ==
    IF len = AddrBits THEN len
    ELSE IF (a \div Pow2(AddrBits - len - 1)) = (b \div Pow2(AddrBits - len - 1))
         THEN CommonPrefixLen(a, b, len + 1)
         ELSE len

RangePrefixes_Singles(v, a, b) ==
    [i \in 1..(b - a + 1) |-> MkPrefix(v, a + i - 1, AddrBits)]

\* appendRangePrefixes: a whole aligned block is one prefix, otherwise the
\* range is cut at the first differing bit and both halves are decomposed
RECURSIVE RangePrefixes(_, _, _)
RangePrefixes(v, a, b) ==
    LET common == CommonPrefixLen(a, b, 0)
        size == Pow2(AddrBits - common)
        half == Pow2(AddrBits - common - 1)
    IN  IF a % size = 0 /\ b % size = size - 1
        THEN <<MkPrefix(v, a, common)>>
        ELSE RangePrefixes(v, a, (a \div half) * half + half - 1)
             \o RangePrefixes(v, (b \div half) * half, b)

\* IPRangeFrom(start, end).Prefixes(): nothing for an invalid range
Prefixes(start, end) ==
    IF start.ver # end.ver \/ start.n > end.n
    THEN <<>>
    ELSE RangePrefixes(start.ver, start.n, end.n)

(* ---- state ---- *)
VARIABLES
    ipVersion,          \* IP version of every prefix of the run
    includeEmptyRows,   \* Accumulator.includeEmptyRows
    hasWriteRange,      \* the writer also implements RangeRowWriter
    current,            \* Accumulator.current: None or [StartIP, EndIP, Data]
    heap,               \* contents of the map objects handed to Process
    fed,                \* the Process calls made so far
    calls,              \* the WriteRow / WriteRange calls made on the writer
    lastFlush,          \* the range of the latest flush of an open range
    nflush,             \* number of flushes of an open range so far
    failsLeft,          \* writer errors still to come
    nextIP,             \* first address after the prefixes fed so far
    last,               \* the latest call: [op, err]
    overwrites,         \* caller mutations of a map it passed to Process
    pc,                 \* the caller: "client", "owner", or the driver's
                        \* position "new", "rejected", "iter", "done", "failed"
    config,             \* cfg.Columns: sequence of [Name, Database, PathOK]
    readers,            \* mmdb.Readers: database name -> opened reader
    merger,             \* what NewMerger returned: None before the call, the
                        \* Merger (err = "") or only the error
    pending,            \* what the nested iteration over the readers has still
                        \* to hand to extractAndProcess
    objects,            \* the mmdbtype.Map objects in memory: key -> value
    outputColumns,      \* MMDBWriter.config.Columns: [Name, HasOutputPath,
                        \* OutputPath]
    inputs,             \* the map objects handed to the nested-record builder
    out,                \* what the calls of the builder returned, in order
    ipv4,               \* SplitRowWriter.ipv4: None (nil) or the sink
                        \* [ranges, flushes]: the methods it implements
    ipv6,               \* SplitRowWriter.ipv6, likewise
    sinkCalls,          \* the calls made on the two sinks, in order
    ret,                \* None, or the SplitRowWriter call made and its error
    native,             \* the values of the platform's int type
    rawPath,            \* a column's path as the configuration decoded it
    decoded,            \* a decoded record
    norms,              \* what normalizeSegments returned, applied to rawPath
                        \* and then to its own result
    walks,              \* what walkPath returned: [level, err, found, value]
    pair,               \* None, or the two arguments a function of package
                        \* network is applied to
    verdicts,           \* what the calls on pair returned
    build,              \* the copy of extractAndProcess the build holds
    workingSlice,       \* Merger.workingSlice, one slot per column
    handed,             \* the rows extractAndProcess handed to the accumulator:
                        \* [results, values, decodes]
    slicePool,          \* slicePool: [size, pool], pool the buffers it holds
    lastPool            \* None, or the latest call on the pool: [op, s, was,
                        \* accepted], s the buffer returned or passed, was its
                        \* contents before the call

vars == <<ipVersion, includeEmptyRows, hasWriteRange, current, heap, fed, calls,
          lastFlush, nflush, failsLeft, nextIP, last, overwrites, pc,
          config, readers, merger, pending,
          objects, outputColumns, inputs, out,
          ipv4, ipv6, sinkCalls, ret, native, rawPath, decoded, norms, walks,
          pair, verdicts, build, workingSlice, handed, slicePool, lastPool>>

\* the driver's variables, which the accumulator never touches
driver == <<config, readers, merger, pending>>

\* the nested-record builder's variables, which only MMDBWriter touches
builder == <<objects, outputColumns, inputs, out>>

\* the variables of SplitRowWriter and its two sinks
splitter == <<ipv4, ipv6, sinkCalls, ret>>

\* the variables of path normalisation and walking
walker == <<native, rawPath, decoded, norms, walks>>

\* the variables of the address-adjacency calls
adjacency == <<pair, verdicts>>

\* the variables of extractAndProcess
extraction == <<build, workingSlice, handed>>

\* the variables of the slice pool
pooling == <<slicePool, lastPool>>

\* the data map of the open range, read through its reference
CurrentData == IF current = None THEN None ELSE heap[current.Data]

Call(op, start, end, bits, data) ==
    [op |-> op, start |-> start, end |-> end, bits |-> bits, data |-> data]

FlushCalls_RowsOnly(start, end, data, rangeWriter) ==
    LET cidrs == Prefixes(start, end)
    IN  [i \in 1..Len(cidrs) |->
            Call("WriteRow", cidrs[i].Addr, PrefixLastIP(cidrs[i]), cidrs[i].Bits, data)]

\* Flush: the writer calls a flush of [start, end] sets out to make
FlushCalls(start, end, data, rangeWriter) ==
    IF rangeWriter
    THEN <<Call("WriteRange", start, end, NoBits, data)>>
    ELSE LET cidrs == Prefixes(start, end)
         IN  [i \in 1..Len(cidrs) |->
                Call("WriteRow", cidrs[i].Addr, PrefixLastIP(cidrs[i]), cidrs[i].Bits, data)]

\* the writer calls Flush makes when call number failAt returns an error
\* (failAt = 0: none does); the failing call is the last one made
MadeCalls(intended, failAt, fid) ==
    [i \in 1..(IF failAt = 0 THEN Len(intended) ELSE failAt) |->
        [op |-> intended[i].op, start |-> intended[i].start, end |-> intended[i].end,
         bits |-> intended[i].bits, data |-> intended[i].data,
         ok |-> (i # failAt), fid |-> fid]]

CurrentAfterFlush_Keep(cur, failAt) == cur

\* Accumulator.current after Flush: cleared only after every write succeeded
CurrentAfterFlush(cur, failAt) == IF failAt = 0 THEN None ELSE cur

\* the values failAt may take for a flush of cur
FailChoices(cur, data, left) ==
    IF cur = None \/ left = 0 THEN {0}
    ELSE 0..Len(FlushCalls(cur.StartIP, cur.EndIP, data, hasWriteRange))

NewRange_Swapped(prefix, ref) ==
    [StartIP |-> PrefixLastIP(prefix), EndIP |-> prefix.Addr, Data |-> ref]

NewRange(prefix, ref) ==
    [StartIP |-> prefix.Addr, EndIP |-> PrefixLastIP(prefix), Data |-> ref]

canExtend_SkipData(cur, curData, addr, data) == IsAdjacent(cur.EndIP, addr)

canExtend_Never(cur, curData, addr, data) == FALSE

\* canExtend of Process
canExtend(cur, curData, addr, data) ==
    IsAdjacent(cur.EndIP, addr) /\ dataEquals(curData, data)

Skipped_Never(data) == FALSE

\* Process skips the row
Skipped(data) == ~includeEmptyRows /\ Cardinality(DOMAIN data) = 0

(* ---- Accumulator ---- *)

\* NewAccumulator, with a writer and a caller that has done nothing yet
NewAccumulator ==
    /\ ipVersion \in Versions
    /\ includeEmptyRows \in BOOLEAN
    /\ hasWriteRange \in BOOLEAN
    /\ current = None
    /\ heap = <<>>
    /\ fed = <<>>
    /\ calls = <<>>
    /\ lastFlush = None
    /\ nflush = 0
    /\ failsLeft = MaxFail
    /\ nextIP = 0
    /\ last = [op |-> "none", err |-> FALSE]
    /\ overwrites = 0

\* the part of Flush that writes the open range (current # None)
FlushOpen(failAt) ==
    LET data == heap[current.Data]
        intended == FlushCalls(current.StartIP, current.EndIP, data, hasWriteRange)
    IN  /\ calls' = calls \o MadeCalls(intended, failAt, nflush + 1)
        /\ nflush' = nflush + 1
        /\ lastFlush' = [StartIP |-> current.StartIP, EndIP |-> current.EndIP,
                         Data |-> data, err |-> (failAt # 0), from |-> Len(calls) + 1]
        /\ failsLeft' = IF failAt = 0 THEN failsLeft ELSE failsLeft - 1

\* Accumulator.Flush; when no range is open nothing is written
Flush ==
    /\ IF current = None
       THEN /\ UNCHANGED <<current, calls, nflush, lastFlush, failsLeft>>
            /\ last' = [op |-> "Flush", err |-> FALSE]
       ELSE \E failAt \in FailChoices(current, CurrentData, failsLeft) :
            /\ FlushOpen(failAt)
            /\ current' = CurrentAfterFlush(current, failAt)
            /\ last' = [op |-> "Flush", err |-> (failAt # 0)]
    /\ UNCHANGED <<ipVersion, includeEmptyRows, hasWriteRange, heap, fed, nextIP, overwrites>>

\* Accumulator.Process; data is a map object the caller has just built
Process(prefix, data) ==
    LET addr == prefix.Addr
        endIP == PrefixLastIP(prefix)
        ref == Len(heap) + 1
        row(how, err) == [prefix |-> prefix, data |-> data, how |-> how, err |-> err]
    IN  /\ heap' = Append(heap, data)
        /\ nextIP' = endIP.n + 1
        /\ UNCHANGED <<ipVersion, includeEmptyRows, hasWriteRange, overwrites>>
        /\ IF Skipped(data)
           THEN /\ fed' = Append(fed, row("skip", FALSE))
                /\ last' = [op |-> "Process", err |-> FALSE]
                /\ UNCHANGED <<current, calls, nflush, lastFlush, failsLeft>>
           ELSE IF current = None
           THEN /\ current' = NewRange(prefix, ref)
                /\ fed' = Append(fed, row("open", FALSE))
                /\ last' = [op |-> "Process", err |-> FALSE]
                /\ UNCHANGED <<calls, nflush, lastFlush, failsLeft>>
           ELSE IF canExtend(current, heap[current.Data], addr, data)
           THEN /\ current' = [current EXCEPT !.EndIP = endIP]
                /\ fed' = Append(fed, row("extend", FALSE))
                /\ last' = [op |-> "Process", err |-> FALSE]
                /\ UNCHANGED <<calls, nflush, lastFlush, failsLeft>>
           ELSE \E failAt \in FailChoices(current, CurrentData, failsLeft) :
                /\ FlushOpen(failAt)
                /\ current' = IF failAt # 0
                              THEN CurrentAfterFlush(current, failAt)
                              ELSE NewRange(prefix, ref)
                /\ fed' = Append(fed, row("flush", failAt # 0))
                /\ last' = [op |-> "Process", err |-> (failAt # 0)]

\* the rows a caller may feed next: one IP version, ascending, disjoint
NextRows ==
    {p \in PrefixesFrom(ipVersion, nextIP) : p.Addr.n - nextIP \in Gaps}

(* ---- a caller of the Accumulator ---- *)

ClientProcess ==
    /\ pc \in {"client", "owner"}
    /\ Len(fed) < MaxClientRows
    /\ \E prefix \in NextRows, data \in DataMaps : Process(prefix, data)
    /\ UNCHANGED <<pc, driver, builder, splitter, walker, adjacency, extraction, pooling>>

ClientFlush ==
    /\ pc \in {"client", "owner"}
    /\ Flush
    /\ UNCHANGED <<pc, driver, builder, splitter, walker, adjacency, extraction, pooling>>

\* the caller writes into the map it passed to the latest Process call
ClientOverwrite ==
    /\ pc = "owner"
    /\ overwrites < MaxOverwrite
    /\ last.op = "Process"
    /\ \E m \in DataMaps :
          /\ m # heap[Len(heap)]
          /\ heap' = [heap EXCEPT ![Len(heap)] = m]
    /\ overwrites' = overwrites + 1
    /\ last' = [op |-> "Overwrite", err |-> FALSE]
    /\ UNCHANGED <<ipVersion, includeEmptyRows, hasWriteRange, current, fed, calls,
                   lastFlush, nflush, failsLeft, nextIP, pc, driver, builder, splitter, walker, adjacency, extraction, pooling>>

\* no MMDBWriter exists when the sink is the recording writer
NoBuilder ==
    /\ objects = <<>>
    /\ outputColumns = <<>>
    /\ inputs = <<>>
    /\ out = <<>>

\* no SplitRowWriter exists when the sink is written directly
NoSplitter ==
    /\ ipv4 = None
    /\ ipv6 = None
    /\ sinkCalls = <<>>
    /\ ret = None

\* extractAndProcess is not called
NoExtraction ==
    /\ build = "none"
    /\ workingSlice = <<>>
    /\ handed = <<>>

\* no slice pool is in use
NoPooling ==
    /\ slicePool = None
    /\ lastPool = None

\* IsAdjacent is applied to no pair of addresses
NoAdjacency ==
    /\ pair = None
    /\ verdicts = {}

\* no path is normalised or walked; int is as wide as int64
NoWalker ==
    /\ native = Int64s
    /\ rawPath = <<>>
    /\ decoded = <<>>
    /\ norms = <<>>
    /\ walks = {}

\* no Merger exists when the accumulator is called directly
NoDriver ==
    /\ config = <<>>
    /\ readers = <<>>
    /\ merger = None
    /\ pending = <<>>

InitAcc == NewAccumulator /\ NoDriver /\ NoBuilder /\ NoSplitter /\ NoWalker /\ NoAdjacency /\ NoExtraction /\ NoPooling /\ pc = "client"

NextAcc == ClientProcess \/ ClientFlush

SpecAcc == InitAcc /\ [][NextAcc]_vars

\* a caller that reuses the maps it passes, with a writer that never fails
InitOwn ==
    /\ ipVersion \in Versions
    /\ includeEmptyRows \in BOOLEAN
    /\ hasWriteRange \in BOOLEAN
    /\ current = None
    /\ heap = <<>>
    /\ fed = <<>>
    /\ calls = <<>>
    /\ lastFlush = None
    /\ nflush = 0
    /\ failsLeft = 0
    /\ nextIP = 0
    /\ last = [op |-> "none", err |-> FALSE]
    /\ overwrites = 0
    /\ NoDriver
    /\ NoBuilder
    /\ NoSplitter
    /\ NoWalker /\ NoAdjacency /\ NoExtraction /\ NoPooling
    /\ pc = "owner"

NextOwn == ClientProcess \/ ClientFlush \/ ClientOverwrite

SpecOwn == InitOwn /\ [][NextOwn]_vars

(* ---- Merger.Merge over one reader ---- *)

\* extractAndProcess: a fresh map holding the non-nil column values
ExtractData(record) ==
    [c \in {k \in Columns : record[k] # Nil} |-> record[c]]

\* one iteration of Merge's loop: the reader yields the next network and
\* extractAndProcess hands it to the accumulator; an error ends Merge
MergeNetwork ==
    /\ pc = "iter"
    /\ Len(fed) < MaxRows
    /\ \E prefix \in NextRows, record \in Records :
          Process(prefix, ExtractData(record))
    /\ pc' = IF last'.err THEN "failed" ELSE "iter"
    /\ UNCHANGED <<driver, builder, splitter, walker, adjacency, extraction, pooling>>

\* the reader is exhausted: Merge flushes the accumulator and returns
MergeFlush ==
    /\ pc = "iter"
    /\ Flush
    /\ pc' = IF last'.err THEN "failed" ELSE "done"
    /\ UNCHANGED <<driver, builder, splitter, walker, adjacency, extraction, pooling>>

Init == NewAccumulator /\ NoDriver /\ NoBuilder /\ NoSplitter /\ NoWalker /\ NoAdjacency /\ NoExtraction /\ NoPooling /\ pc = "iter"

Next == MergeNetwork \/ MergeFlush

Spec == Init /\ [][Next]_vars

(* ---- mmdb readers (maxminddb.Reader behind mmdb.Reader) ---- *)

DBNames == <<"a", "b", "c">>
ColumnNames == <<"c1", "c2", "c3">>
UnsupportedVersion == 5

\* the networks into which a search tree with at most k inner nodes below
\* prefix n/b divides that prefix (networks without data included)
RECURSIVE Partitions(_, _, _, _)
Partitions(v, n, b, k) ==
    {{MkPrefix(v, n, b)}} \cup
    (IF k = 0 \/ b = AddrBits
     THEN {}
     ELSE UNION {{L \cup R : L \in Partitions(v, n, b + 1, k1),
                            R \in Partitions(v, n + Pow2(AddrBits - b - 1), b + 1,
                                             k - 1 - k1)} :
                 k1 \in 0..(k - 1)})

\* which networks of a tree carry a record: all, or only the first
FoundPatterns(nets) ==
    {nets, {p \in nets : p.Addr.n = 0}}

\* the opened databases of IP version v (Metadata().IPVersion = ver)
Databases(ver, v) ==
    UNION {{[IPVersion |-> ver, nets |-> P, found |-> F] : F \in FoundPatterns(P)} :
           P \in Partitions(v, 0, 0, MaxSplits)}

RECURSIVE Ascending(_)
Ascending(S) ==
    IF S = {} THEN <<>>
    ELSE LET p == CHOOSE x \in S : \A y \in S : x.Addr.n <= y.Addr.n
         IN  <<p>> \o Ascending(S \ {p})

Result(reader, prefix) ==
    [Prefix |-> prefix, Found |-> (prefix \in reader.found)]

\* Reader.Networks(IncludeNetworksWithoutData): every network, ascending
Networks(reader) ==
    LET nets == Ascending(reader.nets)
    IN  [i \in 1..Len(nets) |-> Result(reader, nets[i])]

\* Reader.NetworksWithin(prefix, IncludeNetworksWithoutData): the networks
\* inside prefix, or the one network that contains prefix
NetworksWithin(reader, prefix) ==
    LET nets == Ascending({p \in reader.nets :
                              /\ p.Addr.n <= PrefixLastIP(prefix).n
                              /\ prefix.Addr.n <= PrefixLastIP(p).n})
    IN  [i \in 1..Len(nets) |-> Result(reader, nets[i])]

SmallestNetwork_Second(a, b) == b

SmallestNetwork_TieSecond(a, b) == IF a.Bits > b.Bits THEN a ELSE b

\* network.SmallestNetwork
SmallestNetwork(a, b) == IF a.Bits >= b.Bits THEN a ELSE b

(* ---- NewMerger ---- *)

\* path segments of a column: a string key, an int64 index, a float64
\* a path segment: a string, an int, an int64, or a value of another type
\* (a float64, whose value plays no part)
Segment(type, str, num) == [type |-> type, s |-> str, n |-> num]

Segments ==
    {Segment("string", "iso", 0), Segment("int64", "", 0), Segment("float64", "", 0)}
Paths == {<<>>} \cup {<<seg>> : seg \in Segments}

normalizeSegments_AcceptAll(path) == [err |-> "", segments |-> path]

\* the segments the loop of normalizeSegments rejects
Rejected(path) ==
    {i \in 1..Len(path) :
        \/ path[i].type \notin {"string", "int", "int64"}
        \/ path[i].type = "int64" /\ path[i].n \notin native}

normalizeLoop_NoRangeCheck(path) ==
    IF \E i \in 1..Len(path) : path[i].type \notin {"string", "int", "int64"}
    THEN [err |-> "unsupported path segment type", segments |-> <<>>]
    ELSE [err |-> "",
          segments |-> [i \in 1..Len(path) |->
                          IF path[i].type = "int64"
                          THEN Segment("int", "", path[i].n) ELSE path[i]]]

normalizeLoop_Swap(path) ==
    [err |-> "",
     segments |-> [i \in 1..Len(path) |->
                     IF path[i].type = "int64" THEN Segment("int", "", path[i].n)
                     ELSE IF path[i].type = "int" THEN Segment("int64", "", path[i].n)
                     ELSE path[i]]]

\* normalizeSegments' loop: strings and ints are kept, an int64 that fits
\* int becomes an int; the first segment of another type or out of range
\* ends the loop with its error
normalizeLoop(path) ==
    IF Rejected(path) # {}
    THEN LET i == CHOOSE i \in Rejected(path) : \A j \in Rejected(path) : i <= j
         IN  [err |-> IF path[i].type = "int64" THEN "path index out of range"
                      ELSE "unsupported path segment type",
              segments |-> <<>>]
    ELSE [err |-> "",
          segments |-> [i \in 1..Len(path) |->
                          IF path[i].type = "int64"
                          THEN Segment("int", "", path[i].n) ELSE path[i]]]

normalizeSegments_EmptyKey(path) ==
    IF Len(path) = 0 THEN [err |-> "", segments |-> <<Segment("string", "", 0)>>]
    ELSE normalizeLoop(path)

\* mmdb.NormalizeSegments: an empty path is allowed and stays empty
normalizeSegments(path) ==
    IF Len(path) = 0 THEN [err |-> "", segments |-> <<>>]
    ELSE normalizeLoop(path)

RECURSIVE getUniqueDatabaseNames_LastUse(_)
getUniqueDatabaseNames_LastUse(columns) ==
    IF columns = <<>> THEN <<>>
    ELSE LET after == getUniqueDatabaseNames_LastUse(Tail(columns))
             db == Head(columns).Database
         IN  IF \E i \in 1..Len(after) : after[i] = db
             THEN after
             ELSE Append(after, db)

\* getUniqueDatabaseNames: database names of the columns in first-use order
RECURSIVE getUniqueDatabaseNames(_)
getUniqueDatabaseNames(columns) ==
    IF columns = <<>> THEN <<>>
    ELSE LET before == getUniqueDatabaseNames(SubSeq(columns, 1, Len(columns) - 1))
             db == columns[Len(columns)].Database
         IN  IF \E i \in 1..Len(before) : before[i] = db
             THEN before
             ELSE Append(before, db)

validateIPVersions_FirstOnly(readersList) ==
    IF readersList[1].IPVersion \notin {4, 6}
    THEN "unsupported ip_version values reported"
    ELSE ""

\* validateIPVersions: "" when every reader reports 4 or every reader reports 6
validateIPVersions(readersList) ==
    LET versions == {readersList[i].IPVersion : i \in 1..Len(readersList)}
    IN  IF versions \ {4, 6} # {}
        THEN "unsupported ip_version values reported"
        ELSE IF 4 \in versions /\ 6 \in versions
             THEN "configured databases mix IPv4-only and IPv6-capable files"
             ELSE ""

\* NewMerger: the Merger it returns (err = "") or the error
NewMerger(columns, rs) ==
    LET dbNamesList == getUniqueDatabaseNames(columns)
        readersList == [i \in 1..Len(dbNamesList) |-> rs[dbNamesList[i]]]
    IN  IF dbNamesList = <<>>
        THEN [err |-> "no databases configured"]
        ELSE IF \E i \in 1..Len(dbNamesList) : dbNamesList[i] \notin DOMAIN rs
        THEN [err |-> "database not found"]
        ELSE IF validateIPVersions(readersList) # ""
        THEN [err |-> validateIPVersions(readersList)]
        ELSE IF \E i \in 1..Len(columns) : normalizeSegments(columns[i].Path).err # ""
        THEN [err |-> "normalizing path"]
        ELSE [err |-> "",
              dbNamesList |-> dbNamesList,
              readersList |-> readersList,
              extractors |-> [i \in 1..Len(columns) |->
                  [name |-> columns[i].Name,
                   reader |-> rs[columns[i].Database],
                   path |-> normalizeSegments(columns[i].Path).segments,
                   dbIndex |-> CHOOSE j \in 1..Len(dbNamesList) :
                                  dbNamesList[j] = columns[i].Database]]]

(* ---- Merger.Merge over the readers of a Merger ---- *)

\* what processNetwork hands to extractAndProcess, in order: one
\* [prefix, results] per effective prefix
RECURSIVE processNetwork(_, _, _, _)
RECURSIVE processWithin(_, _, _, _, _)
processNetwork(readersList, results, effectivePrefix, dbIndex) ==
    IF dbIndex > Len(readersList)
    THEN <<[prefix |-> effectivePrefix, results |-> results]>>
    ELSE processWithin(readersList, results, effectivePrefix, dbIndex,
                       NetworksWithin(readersList[dbIndex], effectivePrefix))

\* the loop of processNetwork over the networks the reader yields
processWithin(readersList, results, effectivePrefix, dbIndex, within) ==
    IF within = <<>> THEN <<>>
    ELSE processNetwork(readersList, Append(results, Head(within)),
                        SmallestNetwork(effectivePrefix, Head(within).Prefix),
                        dbIndex + 1)
         \o processWithin(readersList, results, effectivePrefix, dbIndex, Tail(within))

\* the loop of Merge over the first reader's networks
RECURSIVE mergeLoop(_, _)
mergeLoop(readersList, outer) ==
    IF outer = <<>> THEN <<>>
    ELSE (IF Len(readersList) = 1
          THEN <<[prefix |-> Head(outer).Prefix, results |-> <<Head(outer)>>]>>
          ELSE processNetwork(readersList, <<Head(outer)>>, Head(outer).Prefix, 2))
         \o mergeLoop(readersList, Tail(outer))

\* every extractAndProcess call a Merge without errors makes
MergeRows(mg) == mergeLoop(mg.readersList, Networks(mg.readersList[1]))

\* extractAndProcess: the map of the columns whose result decodes to a value
extractData(extractors, results) ==
    LET value(e) == IF e.dbIndex < 1 \/ e.dbIndex > Len(results) THEN Nil
                    ELSE IF results[e.dbIndex].Found THEN "US" ELSE Nil
        present == {i \in 1..Len(extractors) : value(extractors[i]) # Nil}
    IN  [c \in {extractors[i].name : i \in present} |-> "US"]

\* main: NewMerger, whose error ends the program before Merge is called
Construct ==
    /\ pc = "new"
    /\ LET mg == NewMerger(config, readers)
       IN  IF mg.err = ""
           THEN merger' = mg /\ pc' = "iter" /\ pending' = MergeRows(mg)
           ELSE merger' = mg /\ pc' = "rejected" /\ pending' = <<>>
    /\ last' = [op |-> "NewMerger", err |-> (pc' = "rejected")]
    /\ UNCHANGED <<ipVersion, includeEmptyRows, hasWriteRange, current, heap, fed,
                   calls, lastFlush, nflush, failsLeft, nextIP, overwrites,
                   config, readers, builder, splitter, walker, adjacency, extraction, pooling>>

AfterCall_Continue(err) == "iter"

\* `if err != nil { return err }` after a call inside Merge's loops
AfterCall(err) == IF err THEN "failed" ELSE "iter"

\* one extractAndProcess call of Merge, reached through the nested iteration
MergeRow ==
    /\ pc = "iter"
    /\ pending # <<>>
    /\ IF \E i \in 1..Len(merger.extractors) : merger.extractors[i].reader = None
       THEN /\ last' = [op |-> "database not found for column", err |-> TRUE]
            /\ UNCHANGED <<ipVersion, includeEmptyRows, hasWriteRange, current, heap,
                           fed, calls, lastFlush, nflush, failsLeft, nextIP, overwrites>>
       ELSE Process(Head(pending).prefix,
                    extractData(merger.extractors, Head(pending).results))
    /\ pending' = Tail(pending)
    /\ pc' = AfterCall(last'.err)
    /\ UNCHANGED <<config, readers, merger, builder, splitter, walker, adjacency, extraction, pooling>>

\* a reader's iteration yields an error, or DecodePath fails: Merge returns
MergeFails ==
    /\ pc = "iter"
    /\ last' = [op |-> "read", err |-> TRUE]
    /\ pc' = "failed"
    /\ UNCHANGED <<ipVersion, includeEmptyRows, hasWriteRange, current, heap, fed,
                   calls, lastFlush, nflush, failsLeft, nextIP, overwrites, driver,
                   builder, splitter, walker, adjacency, extraction, pooling>>

\* the outer iteration has ended: Merge flushes the accumulator and returns
MergeDrain ==
    /\ pc = "iter"
    /\ pending = <<>>
    /\ MergeFlush

\* readers over the same address space, one column per reader
InitN ==
    /\ NewAccumulator
    /\ pc = "new"
    /\ \E n \in 1..Len(DBNames) :
          /\ config = [i \in 1..n |->
                         [Name |-> ColumnNames[i], Database |-> DBNames[i], Path |-> <<>>]]
          /\ readers \in [{DBNames[i] : i \in 1..n} -> Databases(ipVersion, ipVersion)]
    /\ merger = None
    /\ pending = <<>>
    /\ NoBuilder
    /\ NoSplitter
    /\ NoWalker /\ NoAdjacency /\ NoExtraction /\ NoPooling

NextN == Construct \/ MergeRow \/ MergeFails \/ MergeDrain

SpecN == InitN /\ [][NextN]_vars

\* any configuration of at most two columns over at most two opened
\* databases of one network each
InitCfg ==
    /\ NewAccumulator
    /\ pc = "new"
    /\ \E n \in 0..2 :
          config \in [1..n -> {[Name |-> ColumnNames[i], Database |-> DBNames[d], Path |-> path] :
                                 i \in 1..2, d \in 1..2, path \in Paths}]
    /\ \A i \in DOMAIN config : config[i].Name = ColumnNames[i]
    /\ \E opened \in SUBSET {DBNames[1], DBNames[2]} :
          readers \in [opened ->
                         {[IPVersion |-> ver, nets |-> {MkPrefix(ipVersion, 0, 0)},
                           found |-> {MkPrefix(ipVersion, 0, 0)}] :
                            ver \in {ipVersion, 10 - ipVersion, UnsupportedVersion}}]
    /\ merger = None
    /\ pending = <<>>
    /\ NoBuilder
    /\ NoSplitter
    /\ NoWalker /\ NoAdjacency /\ NoExtraction /\ NoPooling

SpecCfg == InitCfg /\ [][NextN]_vars

(* ---- vocabulary of the properties ---- *)

\* the writer calls that returned nil, in order
OkCalls == SelectSeq(calls, LAMBDA c : c.ok)

RowFirst(r) == r.prefix.Addr.n
RowLast(r) == r.prefix.Addr.n + Pow2(AddrBits - r.prefix.Bits) - 1

\* row i was dropped by empty-row filtering
FilteredRow(r) == ~includeEmptyRows /\ DOMAIN r.data = {}
Filtered(i) == FilteredRow(fed[i])

\* b is the immediate successor of a in the address space of a's version
Successor(a, b) == a.ver = b.ver /\ b.n = a.n + 1

\* the step is a Process call, and r is its row
IsProcessStep == Len(fed') = Len(fed) + 1
NewRow == fed'[Len(fed')]

\* the writer calls made by the step
NewCalls == SubSeq(calls', Len(calls) + 1, Len(calls'))
CallsKept == Len(calls') >= Len(calls) /\ SubSeq(calls', 1, Len(calls)) = calls

\* the step's new calls write exactly the range that was open before it
EmitsOpenRange ==
    /\ Len(NewCalls) >= 1
    /\ NewCalls[1].start = current.StartIP
    /\ NewCalls[Len(NewCalls)].end = current.EndIP
    /\ \A k \in 1..Len(NewCalls) : NewCalls[k].ok /\ NewCalls[k].data = heap[current.Data]
    /\ \A k \in 1..(Len(NewCalls) - 1) : Successor(NewCalls[k].end, NewCalls[k + 1].start)

\* the least number of CIDRs whose disjoint union is exactly s..e
RECURSIVE MinCover(_, _)
MinCover(s, e) ==
    IF s > e THEN 0
    ELSE LET sizes == {j \in 0..AddrBits : s % Pow2(j) = 0 /\ s + Pow2(j) - 1 <= e}
             rest == {MinCover(s + Pow2(j), e) : j \in sizes}
         IN  1 + CHOOSE m \in rest : \A x \in rest : m <= x

(* ---- properties ---- *)

\* C1: the rows handed to the sink are strictly ordered: for any two emitted
\* rows i < j, end(row_i) < start(row_j).
C1_EmittedRowsStrictlyOrdered ==
    \A i, j \in 1..Len(OkCalls) :
        i < j => OkCalls[i].end.n < OkCalls[j].start.n

\* C2: after Merge returns successfully the emitted rows cover exactly the
\* addresses of the rows that were fed and not filtered as empty, each such
\* address is covered by exactly one emitted row, and that row carries the
\* data of the input row covering the address.
C2_MergeCoversInputExactlyOnce ==
    pc = "done" =>
        LET rows == {i \in 1..Len(fed) : ~Filtered(i)}
            outs == {k \in 1..Len(calls) : calls[k].ok}
        IN  /\ UNION {RowFirst(fed[i])..RowLast(fed[i]) : i \in rows}
                  = UNION {calls[k].start.n..calls[k].end.n : k \in outs}
            /\ \A k \in outs : \A i \in rows :
                  (calls[k].start.n <= RowLast(fed[i]) /\ RowFirst(fed[i]) <= calls[k].end.n)
                     => calls[k].data = fed[i].data
            /\ \A k1, k2 \in outs : k1 < k2 => calls[k1].end.n < calls[k2].start.n

C2_Witness ==
    /\ pc = "done"
    /\ ~hasWriteRange
    /\ Len(calls) >= 3
    /\ \E i \in 1..Len(fed) : fed[i].how = "extend"
    /\ \E i \in 1..Len(fed) : fed[i].how = "flush"

\* C3: a Process call whose row starts at the successor of the open range's
\* end and whose data equals the open range's data extends the open range to
\* the row's last IP and writes nothing to the sink, so both rows are in one
\* range.
C3_AdjacentEqualExtends ==
    [][(/\ IsProcessStep
        /\ current # None
        /\ Successor(current.EndIP, NewRow.prefix.Addr)
        /\ NewRow.data = heap[current.Data])
       => (/\ current' = [current EXCEPT !.EndIP = Addr(ipVersion, RowLast(NewRow))]
           /\ calls' = calls
           /\ ~last'.err)]_vars

\* two adjacent rows with equal data come out as the single CIDR spanning both
C3_Witness ==
    /\ Len(fed) = 2
    /\ Successor(Addr(ipVersion, RowLast(fed[1])), fed[2].prefix.Addr)
    /\ fed[1].data = fed[2].data
    /\ Len(calls) = 1
    /\ calls[1].ok /\ calls[1].op = "WriteRow"
    /\ calls[1].start = fed[1].prefix.Addr
    /\ calls[1].end.n = RowLast(fed[2])

\* C4 as claimed: no two consecutive emitted CIDRs are adjacent and carry
\* equal data.
C4_NoAdjacentEqualCIDRs ==
    \A k \in 1..(Len(OkCalls) - 1) :
        (OkCalls[k].op = "WriteRow" /\ OkCalls[k + 1].op = "WriteRow")
        => ~(/\ Successor(OkCalls[k].end, OkCalls[k + 1].start)
             /\ OkCalls[k].data = OkCalls[k + 1].data)

\* C4 as amended: two consecutive emitted rows that are adjacent and carry
\* equal data always belong to the decomposition of the same flushed range;
\* no two consecutively flushed ranges are adjacent with equal data.
C4_AdjacentEqualOnlyWithinOneRange ==
    \A k \in 1..(Len(OkCalls) - 1) :
        (/\ Successor(OkCalls[k].end, OkCalls[k + 1].start)
         /\ OkCalls[k].data = OkCalls[k + 1].data)
        => OkCalls[k].fid = OkCalls[k + 1].fid

C4_Witness ==
    /\ pc = "done"
    /\ \E k \in 1..(Len(OkCalls) - 1) :
          /\ Successor(OkCalls[k].end, OkCalls[k + 1].start)
          /\ OkCalls[k].data = OkCalls[k + 1].data
          /\ OkCalls[k].op = "WriteRow"
    /\ \E k \in 1..(Len(OkCalls) - 1) :
          /\ Successor(OkCalls[k].end, OkCalls[k + 1].start)
          /\ OkCalls[k].fid # OkCalls[k + 1].fid

\* C5: a row that leaves a gap after the open range is never merged into it,
\* even with equal data: Process flushes the open range and opens a new one
\* for the row (or returns the sink's error with the open range untouched),
\* and every emitted range consists of addresses of accepted input rows only.
C5_GapNeverMerged ==
    /\ [][(/\ IsProcessStep
           /\ current # None
           /\ ~FilteredRow(NewRow)
           /\ NewRow.prefix.Addr.n > current.EndIP.n + 1)
          => \/ last'.err /\ current' = current
             \/ /\ ~last'.err
                /\ current' = [StartIP |-> NewRow.prefix.Addr,
                               EndIP |-> Addr(ipVersion, RowLast(NewRow)),
                               Data |-> Len(heap')]
                /\ CallsKept
                /\ EmitsOpenRange]_vars
    /\ [](\A k \in 1..Len(calls) : \A n \in calls[k].start.n..calls[k].end.n :
             \E i \in 1..Len(fed) :
                 /\ ~Filtered(i) /\ ~fed[i].err
                 /\ RowFirst(fed[i]) <= n /\ n <= RowLast(fed[i]))

\* two rows with a gap and equal data come out as exactly those two rows
C5_Witness ==
    /\ Len(fed) = 2
    /\ RowFirst(fed[2]) > RowLast(fed[1]) + 1
    /\ fed[1].data = fed[2].data
    /\ Len(calls) = 2
    /\ \A k \in 1..2 :
          /\ calls[k].ok /\ calls[k].op = "WriteRow"
          /\ calls[k].start = fed[k].prefix.Addr
          /\ calls[k].bits = fed[k].prefix.Bits

\* C6: when the caller overwrites a map it passed to Process, the data of
\* the open range is unchanged.
C6_OverwriteLeavesOpenRange ==
    [][(Len(heap') = Len(heap) /\ heap' # heap) => CurrentData' = CurrentData]_vars

\* C7: after a sink error during Process or Flush the accumulator holds no
\* open range.
C7_ErrorLeavesAccumulatorEmpty == last.err => current = None

\* C8: Flush leaves the accumulator empty, writes nothing when no range is
\* open, writes exactly the open range otherwise, and a Flush that directly
\* follows a Flush writes nothing.
C8_FlushEmitsOnceAndEmpties ==
    [][(fed' = fed) =>
          /\ current' = None
          /\ CallsKept
          /\ current = None => (calls' = calls /\ ~last'.err)
          /\ (current # None /\ ~last'.err) => EmitsOpenRange
          /\ last.op = "Flush" => calls' = calls]_vars

\* C9: a sink that implements WriteRange gets exactly one WriteRange call
\* with the open range's (start, end, data) per flush and never a WriteRow
\* call; a sink without WriteRange only gets WriteRow calls.
C9_RangeWriterGetsWholeRange ==
    [][/\ CallsKept
       /\ \A k \in 1..Len(NewCalls) :
             NewCalls[k].op = IF hasWriteRange THEN "WriteRange" ELSE "WriteRow"
       /\ (/\ hasWriteRange
           /\ current # None
           /\ \/ fed' = fed
              \/ /\ IsProcessStep
                 /\ ~FilteredRow(NewRow)
                 /\ ~(/\ Successor(current.EndIP, NewRow.prefix.Addr)
                      /\ NewRow.data = heap[current.Data]))
          => /\ Len(NewCalls) = 1
             /\ NewCalls[1].start = current.StartIP
             /\ NewCalls[1].end = current.EndIP
             /\ NewCalls[1].data = heap[current.Data]]_vars

C9_Witness ==
    /\ hasWriteRange
    /\ Len(calls) = 2
    /\ \A k \in 1..2 : calls[k].ok /\ calls[k].op = "WriteRange"
    /\ calls[1].end.n > calls[1].start.n
    /\ calls[1].fid # calls[2].fid

\* C10: a range flushed to a sink that only offers WriteRow is written as
\* CIDRs in ascending order, pairwise disjoint, with union exactly
\* [start, end], each with the range's data, and no cover of [start, end]
\* has fewer CIDRs.
C10_FlushWritesMinimalCover ==
    (~hasWriteRange /\ lastFlush # None /\ ~lastFlush.err) =>
        LET new == SubSeq(calls, lastFlush.from, Len(calls))
        IN  /\ Len(new) >= 1
            /\ \A k \in 1..Len(new) :
                  /\ new[k].op = "WriteRow" /\ new[k].ok
                  /\ new[k].data = lastFlush.Data
                  /\ new[k].bits \in 0..AddrBits
                  /\ new[k].start.n % Pow2(AddrBits - new[k].bits) = 0
                  /\ new[k].end.n = new[k].start.n + Pow2(AddrBits - new[k].bits) - 1
            /\ new[1].start = lastFlush.StartIP
            /\ new[Len(new)].end = lastFlush.EndIP
            /\ \A k \in 1..(Len(new) - 1) : Successor(new[k].end, new[k + 1].start)
            /\ Len(new) = MinCover(lastFlush.StartIP.n, lastFlush.EndIP.n)

C10_Witness ==
    /\ ~hasWriteRange
    /\ lastFlush # None /\ ~lastFlush.err
    /\ Len(calls) - lastFlush.from + 1 >= 2
    /\ lastFlush.StartIP.n % 2 = 1

\* C11: with include_empty_rows false a Process call with entirely empty data
\* returns success and changes nothing: the open range (presence, start, end,
\* data) is as before and no writer call is made; with include_empty_rows
\* true the same row is accumulated: unless the writer fails, the open range
\* afterwards ends at the row's last IP and carries the row's empty data.
C11_EmptyRowSkippedOrAccumulated ==
    [][(IsProcessStep /\ DOMAIN NewRow.data = {}) =>
          IF ~includeEmptyRows
          THEN /\ current' = current
               /\ CurrentData' = CurrentData
               /\ calls' = calls
               /\ ~last'.err
          ELSE \/ last'.err
               \/ /\ current' # None
                  /\ current'.EndIP = Addr(ipVersion, RowLast(NewRow))
                  /\ DOMAIN CurrentData' = {}
                  /\ current = None => current'.StartIP = NewRow.prefix.Addr]_vars

\* an empty row was skipped while a range was open, which is later written
\* untouched
C11_Witness ==
    /\ ~includeEmptyRows
    /\ Len(fed) = 2
    /\ fed[1].how = "open"
    /\ DOMAIN fed[2].data = {}
    /\ Len(calls) = 1 /\ calls[1].ok
    /\ calls[1].start = fed[1].prefix.Addr
    /\ calls[1].end.n = RowLast(fed[1])

\* prefix p lies inside network net
Contains(net, p) ==
    /\ net.Addr.ver = p.Addr.ver
    /\ net.Bits <= p.Bits
    /\ net.Addr.n <= p.Addr.n
    /\ PrefixLastIP(p).n <= PrefixLastIP(net).n

\* C12: the effective prefixes handed to the accumulator are the common
\* refinement of the readers' network partitions: each lies in exactly one
\* network of every reader and equals the most specific of these networks,
\* they are pairwise disjoint and ascending, and once Merge has returned
\* successfully they cover every network of the first reader.  (Stated of
\* the prefix handed over last: every prefix handed over is the last one in
\* the state its Process call leads to.)
C12_EffectivePrefixesAreCommonRefinement ==
    (pc \in {"iter", "done", "failed"} /\ fed # <<>>) =>
        LET rl == merger.readersList
            p == fed[Len(fed)].prefix
            around == [d \in 1..Len(rl) |-> {net \in rl[d].nets : Contains(net, p)}]
        IN  /\ \A d \in 1..Len(rl) : Cardinality(around[d]) = 1
            /\ \E d \in 1..Len(rl) : p \in around[d]
            /\ \A d \in 1..Len(rl) : \A net \in around[d] : net.Bits <= p.Bits
            /\ Len(fed) > 1 => RowLast(fed[Len(fed) - 1]) < RowFirst(fed[Len(fed)])
            /\ pc = "done" =>
                  UNION {RowFirst(fed[i])..RowLast(fed[i]) : i \in 1..Len(fed)}
                     = UNION {net.Addr.n..PrefixLastIP(net).n : net \in rl[1].nets}

\* a finished merge of three readers in which some effective prefix is finer
\* than the first reader's network, some is finer than the second reader's
\* and some is finer than the third's
C12_Witness ==
    /\ pc = "done"
    /\ Len(merger.readersList) = 3
    /\ \A d \in 1..3 : \E i \in 1..Len(fed) : fed[i].prefix \notin merger.readersList[d].nets

\* the databases the columns name, and the versions their readers report
UsedDatabases == {config[i].Database : i \in 1..Len(config)}
UsedVersions == {readers[db].IPVersion : db \in UsedDatabases \cap DOMAIN readers}
VersionErrors ==
    {"unsupported ip_version values reported",
     "configured databases mix IPv4-only and IPv6-capable files"}

\* C13: when the readers the columns use include an IPv4-only and an
\* IPv6-capable one, or one with an ip_version other than 4 and 6, NewMerger
\* returns an error and no Merger: no reader is iterated and nothing is handed
\* to the accumulator or the writer; when all of them report the same
\* supported version NewMerger does not fail on the version check.
C13_MixedVersionsRejectedAtConstruction ==
    pc # "new" =>
        IF (4 \in UsedVersions /\ 6 \in UsedVersions) \/ UsedVersions \ {4, 6} # {}
        THEN /\ pc = "rejected"
             /\ merger.err # ""
             /\ fed = <<>> /\ calls = <<>> /\ pending = <<>> /\ current = None
        ELSE merger.err \notin VersionErrors

\* NewMerger has rejected two opened databases that mix the IP versions
C13_Witness ==
    /\ pc = "rejected"
    /\ UsedDatabases = {"a", "b"}
    /\ UsedDatabases \subseteq DOMAIN readers
    /\ UsedVersions = {4, 6}
    /\ merger.err = "configured databases mix IPv4-only and IPv6-capable files"
    /\ calls = <<>>

\* C14: a column that names a database without an opened reader, or whose
\* path has a segment that does not normalise, makes NewMerger return an
\* error and no Merger, so no network is iterated and no writer call is made;
\* Merge itself never fails for a configuration error.
C14_ConfigErrorsRaisedByNewMerger ==
    /\ (/\ pc # "new"
        /\ \E i \in 1..Len(config) :
              \/ config[i].Database \notin DOMAIN readers
              \/ \E k \in 1..Len(config[i].Path) :
                    config[i].Path[k].type \notin {"string", "int", "int64"})
       => /\ pc = "rejected"
          /\ merger.err # "" /\ DOMAIN merger = {"err"}
          /\ fed = <<>> /\ calls = <<>> /\ pending = <<>>
    /\ pc = "failed" => last.op \in {"read", "Process", "Flush"}

\* NewMerger has rejected a path with a float64 segment over opened,
\* homogeneous databases
C14_Witness ==
    /\ pc = "rejected"
    /\ merger.err = "normalizing path"
    /\ Len(config) = 2
    /\ UsedDatabases \subseteq DOMAIN readers
    /\ calls = <<>>

\* C15: Merge stops at the first error of a reader, of decoding or of the
\* writer and returns it: a step that meets an error ends Merge, after it no
\* further row is handed to the accumulator, no further writer call is made
\* and no Flush is performed; a failing writer call is the last call made,
\* and a range that was open when a reader failed is never written.
C15_MergeStopsAtFirstError ==
    /\ [](pc \in {"iter", "done", "failed"} =>
            /\ last.err <=> pc = "failed"
            /\ \A k \in 1..(Len(calls) - 1) : calls[k].ok
            /\ (pc = "failed" /\ last.op \in {"Process", "Flush"}) =>
                  (calls # <<>> /\ ~calls[Len(calls)].ok)
            /\ (pc = "failed" /\ last.op = "read" /\ current # None) =>
                  \A k \in 1..Len(calls) : calls[k].end.n < current.StartIP.n)
    /\ [][pc = "failed" => FALSE]_vars

\* a reader failed while a range was open and networks were still to come
C15_Witness ==
    /\ pc = "failed"
    /\ last.op = "read"
    /\ current # None
    /\ calls # <<>>
    /\ pending # <<>>

\* C16: Merge calls Accumulator.Flush only when the outer iteration has ended
\* without error, as its last step, hence once and after the last Process
\* call; when Merge has returned successfully the accumulator holds no open
\* range and the addresses of every processed row that was not dropped as
\* empty have been written, with the row's data.
C16_MergeFlushesOnceAtEnd ==
    /\ [][last'.op = "Flush" =>
            /\ pc = "iter" /\ pending = <<>> /\ last.op # "Flush"
            /\ pc' \in {"done", "failed"}
            /\ fed' = fed]_vars
    /\ [][pc = "done" => FALSE]_vars
    /\ [](pc = "done" =>
            /\ last = [op |-> "Flush", err |-> FALSE]
            /\ current = None
            /\ pending = <<>>
            /\ \A i \in 1..Len(fed) :
                  Filtered(i) \/
                  \A n \in RowFirst(fed[i])..RowLast(fed[i]) :
                     \E k \in 1..Len(calls) :
                        /\ calls[k].ok
                        /\ calls[k].start.n <= n /\ n <= calls[k].end.n
                        /\ calls[k].data = fed[i].data)

\* Merge returned successfully and its final Flush wrote the range that was
\* still open after the last of several rows
C16_Witness ==
    /\ pc = "done"
    /\ Len(fed) >= 2
    /\ nflush >= 2
    /\ lastFlush.EndIP.n = RowLast(fed[Len(fed)])
    /\ calls[Len(calls)].fid = nflush

----------------------------------------------------------------------------
\* internal/writer/mmdb.go: the nested-record builder of MMDBWriter.
\* A Go map is a reference: `objects` holds the contents of every map object,
\* a value is a scalar or the reference of a map object.

MaxWrites == 2

Keys == {"k1", "k2"}
KeyList == <<"k1", "k2">>

Scalar(str) == [isMap |-> FALSE, ref |-> 0, s |-> str]
MapRef(r) == [isMap |-> TRUE, ref |-> r, s |-> ""]

\* path segments as Path.Segments() returns them: strings, or an integer
StringSeg(key) == [type |-> "string", v |-> key]
IntSeg == [type |-> "int", v |-> "0"]

OutputPaths ==
    { <<>>, <<StringSeg("k1")>>, <<StringSeg("k1"), StringSeg("k2")>>,
      <<IntSeg>>, <<IntSeg, StringSeg("k1")>> }

\* shapes of a decoded map of at most two levels
Shapes ==
    { sh \in [top : [Keys -> {"absent", "scalar", "map"}],
              sub : [Keys -> [Keys -> {"absent", "scalar"}]]] :
        \A k \in Keys : sh.top[k] # "map" => \A j \in Keys : sh.sub[k][j] = "absent" }

\* h[r] with key set to v: `m[key] = v` on the map object r
Put(h, r, key, v) ==
    [h EXCEPT ![r] = [k \in (DOMAIN h[r]) \cup {key} |->
                         IF k = key THEN v ELSE h[r][k]]]

\* make(mmdbtype.Map)
NewMap(h) == [heap |-> Append(h, <<>>), ref |-> Len(h) + 1]

CopyMap_Alias(h, r) == [heap |-> h, ref |-> r]

\* make(mmdbtype.Map, len(m)) followed by maps.Copy: a new object holding the
\* entries of r; nested maps stay shared
CopyMap(h, r) == [heap |-> Append(h, h[r]), ref |-> Len(h) + 1]

RECURSIVE AllocSubs(_, _, _, _, _)
\* the sub-maps of a decoded map, allocated key by key; refs: key -> reference
AllocSubs(h, sh, str, i, refs) ==
    IF i > Len(KeyList) THEN [heap |-> h, refs |-> refs]
    ELSE LET k == KeyList[i]
         IN  IF sh.top[k] # "map" THEN AllocSubs(h, sh, str, i + 1, refs)
             ELSE LET obj == [j \in {j \in Keys : sh.sub[k][j] = "scalar"} |-> Scalar(str)]
                  IN  AllocSubs(Append(h, obj), sh, str, i + 1,
                                [refs EXCEPT ![k] = Len(h) + 1])

\* a decoded map of shape sh whose scalars are str, as the reader hands it over
Decoded(h, sh, str) ==
    LET subs == AllocSubs(h, sh, str, 1, [k \in Keys |-> 0])
        obj == [k \in {k \in Keys : sh.top[k] # "absent"} |->
                   IF sh.top[k] = "map" THEN MapRef(subs.refs[k]) ELSE Scalar(str)]
    IN  [heap |-> Append(subs.heap, obj), ref |-> Len(subs.heap) + 1]

\* what a builder function returns, with the memory it leaves behind
Ok(h, r) == [heap |-> h, err |-> "", key |-> "", ref |-> r]
Fail(h, msg, key) == [heap |-> h, err |-> msg, key |-> key, ref |-> 0]

RECURSIVE mergeMaps(_, _, _)
RECURSIVE rangeSource(_, _, _, _)

mergeKey_Overwrite(h, result, source, key) ==
    {Ok(Put(h, result, key, h[source][key]), result)}

mergeKey_Dedupe(h, result, source, key) ==
    LET sourceValue == h[source][key]
    IN  IF key \in DOMAIN h[result]
        THEN LET destValue == h[result][key]
             IN  IF destValue.isMap /\ sourceValue.isMap
                 THEN { IF o.err # "" THEN o
                        ELSE Ok(Put(o.heap, result, key, MapRef(o.ref)), result) :
                           o \in mergeMaps(h, destValue.ref, sourceValue.ref) }
                 ELSE IF destValue = sourceValue
                 THEN {Ok(h, result)}
                 ELSE {Fail(h, "field conflict", key)}
        ELSE {Ok(Put(h, result, key, sourceValue), result)}

\* one iteration of mergeMaps' loop over source
mergeKey(h, result, source, key) ==
    LET sourceValue == h[source][key]
    IN  IF key \in DOMAIN h[result]
        THEN LET destValue == h[result][key]
             IN  IF destValue.isMap /\ sourceValue.isMap
                 THEN { IF o.err # "" THEN o
                        ELSE Ok(Put(o.heap, result, key, MapRef(o.ref)), result) :
                           o \in mergeMaps(h, destValue.ref, sourceValue.ref) }
                 ELSE {Fail(h, "field conflict", key)}
        ELSE {Ok(Put(h, result, key, sourceValue), result)}

rangeSource_ReturnEarly(h, result, source, remaining) ==
    IF remaining = {} THEN {Ok(h, result)}
    ELSE UNION { mergeKey(h, result, source, key) : key \in remaining }

\* `for key, sourceValue := range source`: the keys not yet visited are
\* visited in any order
rangeSource(h, result, source, remaining) ==
    IF remaining = {} THEN {Ok(h, result)}
    ELSE UNION { UNION { IF o.err # "" THEN {o}
                         ELSE rangeSource(o.heap, result, source, remaining \ {key}) :
                            o \in mergeKey(h, result, source, key) } :
                 key \in remaining }

\* mergeMaps(dest, source): every outcome an iteration order can produce
mergeMaps(h, dest, source) ==
    LET c == CopyMap(h, dest)
    IN  rangeSource(c.heap, c.ref, source, DOMAIN h[source])

RECURSIVE navigate(_, _, _, _)
\* mergeNestedValue's loop over path[0 .. len-2], from segment i on
navigate(h, cur, path, i) ==
    IF i > Len(path) - 1 THEN Ok(h, cur)
    ELSE LET seg == path[i]
         IN  IF seg.type # "string" THEN Fail(h, "non-string key", seg.v)
             ELSE IF seg.v \in DOMAIN h[cur]
             THEN LET existing == h[cur][seg.v]
                  IN  IF ~existing.isMap THEN Fail(h, "path conflict", seg.v)
                      ELSE LET c == CopyMap(h, existing.ref)
                           IN  navigate(Put(c.heap, cur, seg.v, MapRef(c.ref)),
                                        c.ref, path, i + 1)
             ELSE LET c == NewMap(h)
                  IN  navigate(Put(c.heap, cur, seg.v, MapRef(c.ref)),
                               c.ref, path, i + 1)

emptyPath_ReturnValue(h, root, value) == {Ok(h, value.ref)}

\* mergeNestedValue's special case: empty path means merge into root
emptyPath(h, root, value) ==
    IF ~value.isMap
    THEN {Fail(h, "cannot set non-map value at root with empty path", "")}
    ELSE mergeMaps(h, root, value.ref)

\* mergeNestedValue(root, path, value): every outcome
mergeNestedValue(h, root, path, value) ==
    IF Len(path) = 0
    THEN emptyPath(h, root, value)
    ELSE LET c == CopyMap(h, root)
             nav == navigate(c.heap, c.ref, path, 1)
             seg == path[Len(path)]
         IN  IF nav.err # "" THEN {nav}
             ELSE IF seg.type # "string"
             THEN {Fail(nav.heap, "non-string final key", seg.v)}
             ELSE IF value.isMap /\ seg.v \in DOMAIN nav.heap[nav.ref]
             THEN LET existing == nav.heap[nav.ref][seg.v]
                  IN  IF existing.isMap
                      THEN { IF o.err # "" THEN o
                             ELSE Ok(Put(o.heap, nav.ref, seg.v, MapRef(o.ref)), c.ref) :
                                o \in mergeMaps(nav.heap, existing.ref, value.ref) }
                      ELSE {Fail(nav.heap, "cannot merge map into non-map", seg.v)}
             ELSE {Ok(Put(nav.heap, nav.ref, seg.v, value), c.ref)}

RECURSIVE buildColumns(_, _, _, _, _)
\* buildNestedData's loop over w.config.Columns, from column i on
buildColumns(h, cols, flatData, root, i) ==
    IF i > Len(cols) THEN {Ok(h, root)}
    ELSE LET col == cols[i]
         IN  IF col.Name \notin DOMAIN h[flatData]
             THEN buildColumns(h, cols, flatData, root, i + 1)
             ELSE LET path == IF col.HasOutputPath THEN col.OutputPath
                              ELSE <<StringSeg(col.Name)>>
                  IN  UNION { IF o.err # "" THEN {o}
                              ELSE buildColumns(o.heap, cols, flatData, o.ref, i + 1) :
                                 o \in mergeNestedValue(h, root, path, h[flatData][col.Name]) }

\* MMDBWriter.buildNestedData(flatData): every outcome
buildNestedData(h, cols, flatData) ==
    LET c == NewMap(h)
    IN  buildColumns(c.heap, cols, flatData, c.ref, 1)

\* the accumulator plays no part when the builder is called on its own
accumulator == <<ipVersion, includeEmptyRows, hasWriteRange, current, heap, fed,
                 calls, lastFlush, nflush, failsLeft, nextIP, last, overwrites>>

NoAccumulator ==
    /\ NewAccumulator
    /\ ipVersion = 4
    /\ ~includeEmptyRows
    /\ ~hasWriteRange

\* what a call of the builder returned, with its arguments
Returned(op, root, path, value, o) ==
    [op |-> op, root |-> root, path |-> path, value |-> value,
     err |-> o.err, key |-> o.key, ref |-> o.ref]

\* a caller applies mergeMaps to two of the decoded maps
CallMergeMaps ==
    /\ pc = "call"
    /\ out = <<>>
    /\ \E i \in DOMAIN inputs, j \in DOMAIN inputs :
          \E o \in mergeMaps(objects, inputs[i], inputs[j]) :
             /\ objects' = o.heap
             /\ out' = <<Returned("mergeMaps", inputs[i], <<>>, MapRef(inputs[j]), o)>>
    /\ UNCHANGED <<accumulator, pc, driver, outputColumns, inputs, splitter, walker, adjacency, extraction, pooling>>

\* a caller applies mergeNestedValue to a decoded map, a path and a value
CallMergeNestedValue ==
    /\ pc = "call"
    /\ out = <<>>
    /\ \E i \in DOMAIN inputs, path \in OutputPaths :
          \E value \in {MapRef(inputs[j]) : j \in DOMAIN inputs} \cup {Scalar("new")} :
             \E o \in mergeNestedValue(objects, inputs[i], path, value) :
                /\ objects' = o.heap
                /\ out' = <<Returned("mergeNestedValue", inputs[i], path, value, o)>>
    /\ UNCHANGED <<accumulator, pc, driver, outputColumns, inputs, splitter, walker, adjacency, extraction, pooling>>

\* two decoded maps, the first with scalars "true", the second with "false"
InitNested ==
    /\ NoAccumulator
    /\ NoDriver
    /\ NoSplitter
    /\ NoWalker /\ NoAdjacency /\ NoExtraction /\ NoPooling
    /\ pc = "call"
    /\ \E sa \in Shapes, sb \in Shapes, str \in {"true", "false"} :
          LET a == Decoded(<<>>, sa, "true")
              b == Decoded(a.heap, sb, str)
          IN  /\ objects = b.heap
              /\ inputs = <<a.ref, b.ref>>
    /\ outputColumns = <<>>
    /\ out = <<>>

NextNested == CallMergeMaps \/ CallMergeNestedValue

SpecNested == InitNested /\ [][NextNested]_vars

\* MMDBWriter.WriteRow(prefix, data) up to the insertion into the tree; the
\* accumulator hands the same data to WriteRow for every CIDR of a range
WriteRow ==
    /\ pc = "write"
    /\ Len(out) < MaxWrites
    /\ \E o \in buildNestedData(objects, outputColumns, inputs[1]) :
          /\ objects' = o.heap
          /\ out' = Append(out, Returned("WriteRow", 0, <<>>, MapRef(inputs[1]), o))
    /\ UNCHANGED <<accumulator, pc, driver, outputColumns, inputs, splitter, walker, adjacency, extraction, pooling>>

\* the values a column can have in a row: a scalar or a decoded map
ColumnValues(h, str) ==
    {[heap |-> h, value |-> Scalar(str)]} \cup
    { LET d == Decoded(h, sh, str) IN [heap |-> d.heap, value |-> MapRef(d.ref)] :
         sh \in Shapes }

\* an MMDBWriter over two columns and the data of one row
InitRow ==
    /\ NoAccumulator
    /\ NoDriver
    /\ NoSplitter
    /\ NoWalker /\ NoAdjacency /\ NoExtraction /\ NoPooling
    /\ pc = "write"
    /\ outputColumns \in
          [1..2 -> {[Name |-> ColumnNames[i], HasOutputPath |-> has, OutputPath |-> path] :
                       i \in 1..2, has \in BOOLEAN, path \in OutputPaths}]
    /\ \A i \in 1..2 :
          /\ outputColumns[i].Name = ColumnNames[i]
          /\ ~outputColumns[i].HasOutputPath => outputColumns[i].OutputPath = <<>>
    /\ \E present \in SUBSET {1, 2} :
          \E v1 \in ColumnValues(<<>>, "true") :
             \E v2 \in ColumnValues(v1.heap, "false") :
                LET flatData == [n \in {ColumnNames[i] : i \in present} |->
                                    IF n = ColumnNames[1] THEN v1.value ELSE v2.value]
                IN  /\ objects = Append(v2.heap, flatData)
                    /\ inputs = <<Len(v2.heap) + 1>>
    /\ out = <<>>

NextRow == WriteRow

SpecRow == InitRow /\ [][NextRow]_vars

----------------------------------------------------------------------------
\* vocabulary of the builder's properties

RECURSIVE SameTree(_, _, _)
\* the map objects a and b are structurally equal
SameTree(h, a, b) ==
    /\ DOMAIN h[a] = DOMAIN h[b]
    /\ \A k \in DOMAIN h[a] :
          /\ h[a][k].isMap = h[b][k].isMap
          /\ IF h[a][k].isMap THEN SameTree(h, h[a][k].ref, h[b][k].ref)
                              ELSE h[a][k].s = h[b][k].s

SameValue(h, v1, v2) ==
    /\ v1.isMap = v2.isMap
    /\ IF v1.isMap THEN SameTree(h, v1.ref, v2.ref) ELSE v1.s = v2.s

BothMaps(h, d, s, k) == h[d][k].isMap /\ h[s][k].isMap

RECURSIVE ConflictKeys(_, _, _)
\* the keys, at any depth, that d and s both have without both values being maps
ConflictKeys(h, d, s) ==
    LET both == (DOMAIN h[d]) \cap (DOMAIN h[s])
    IN  {k \in both : ~BothMaps(h, d, s, k)} \cup
        UNION { ConflictKeys(h, h[d][k].ref, h[s][k].ref) :
                   k \in {k \in both : BothMaps(h, d, s, k)} }

RECURSIVE IsMergeOf(_, _, _, _)
\* r has the keys of d and of s, one-sided keys with that side's value,
\* shared keys with the merge of the two maps
IsMergeOf(h, r, d, s) ==
    /\ DOMAIN h[r] = (DOMAIN h[d]) \cup (DOMAIN h[s])
    /\ \A k \in DOMAIN h[r] :
          IF k \notin DOMAIN h[s] THEN SameValue(h, h[r][k], h[d][k])
          ELSE IF k \notin DOMAIN h[d] THEN SameValue(h, h[r][k], h[s][k])
          ELSE /\ BothMaps(h, d, s, k)
               /\ h[r][k].isMap
               /\ IsMergeOf(h, h[r][k].ref, h[d][k].ref, h[s][k].ref)

\* C17: mergeMaps(dest, source) fails exactly when some key present on both
\* sides, at any depth reached through maps on both sides, does not hold a
\* map on both sides, and then with a "field conflict" error naming such a
\* key; otherwise it returns a map with every key of either side, one-sided
\* keys keeping that side's value and shared keys merged recursively.
C17_MergeMapsUnionOrFieldConflict ==
    (out # <<>> /\ out[1].op = "mergeMaps") =>
       LET conflicts == ConflictKeys(objects, out[1].root, out[1].value.ref)
       IN  IF conflicts = {}
           THEN /\ out[1].err = ""
                /\ IsMergeOf(objects, out[1].ref, out[1].root, out[1].value.ref)
           ELSE /\ out[1].err = "field conflict"
                /\ out[1].key \in conflicts
                /\ out[1].ref = 0

\* a merge that kept a key of one side only and merged, under a shared key,
\* two maps into one with a key of each side
C17_Witness ==
    /\ out # <<>>
    /\ out[1].op = "mergeMaps"
    /\ out[1].err = ""
    /\ out[1].root # out[1].value.ref
    /\ \E k \in Keys, j \in Keys :
          /\ k \in DOMAIN objects[out[1].root]
          /\ k \in DOMAIN objects[out[1].value.ref]
          /\ DOMAIN objects[objects[out[1].ref][k].ref] = Keys
          /\ j \in DOMAIN objects[out[1].ref]
          /\ j \notin DOMAIN objects[out[1].value.ref]

RECURSIVE Lookup(_, _, _, _)
\* what the map object r holds at path, from segment i on: "absent",
\* "blocked" (a scalar stands where the path goes on) or "found" with v
Lookup(h, r, path, i) ==
    IF path[i].v \notin DOMAIN h[r] THEN [state |-> "absent", v |-> Scalar("")]
    ELSE IF i = Len(path) THEN [state |-> "found", v |-> h[r][path[i].v]]
    ELSE IF ~h[r][path[i].v].isMap THEN [state |-> "blocked", v |-> Scalar("")]
    ELSE Lookup(h, h[r][path[i].v].ref, path, i + 1)

\* C18: splicing at a non-empty path of string keys that no scalar blocks:
\* when nothing exists at the final key the value is placed there; when both
\* the existing and the new value are maps they are deep-merged (or the merge
\* reports its conflict); in every other case where a value exists at the
\* final key the splice fails and returns no record.
C18_SpliceFailsOnExistingValue ==
    (/\ out # <<>>
     /\ out[1].op = "mergeNestedValue"
     /\ out[1].path # <<>>
     /\ \A i \in DOMAIN out[1].path : out[1].path[i].type = "string"
     /\ Lookup(objects, out[1].root, out[1].path, 1).state # "blocked") =>
       LET before == Lookup(objects, out[1].root, out[1].path, 1)
           after == Lookup(objects, out[1].ref, out[1].path, 1)
       IN  IF before.state = "absent"
           THEN /\ out[1].err = ""
                /\ after.state = "found"
                /\ SameValue(objects, after.v, out[1].value)
           ELSE IF before.v.isMap /\ out[1].value.isMap
           THEN IF ConflictKeys(objects, before.v.ref, out[1].value.ref) = {}
                THEN /\ out[1].err = ""
                     /\ after.state = "found" /\ after.v.isMap
                     /\ IsMergeOf(objects, after.v.ref, before.v.ref, out[1].value.ref)
                ELSE out[1].err = "field conflict"
           ELSE out[1].err # "" /\ out[1].ref = 0

\* C19: no call of buildNestedData, and so none of the calls of
\* mergeNestedValue and mergeMaps it makes, changes a map object that existed
\* before the call, whether the call succeeds or fails: whatever it writes,
\* it writes into objects it allocated.
C19_BuilderNeverMutatesInputs ==
    [][/\ Len(objects') >= Len(objects)
       /\ \A r \in DOMAIN objects : objects'[r] = objects[r]]_vars

\* the second of two successful WriteRow calls on the same data, in which the
\* second column was spliced below a key of the map the first column merged
\* into the root
C19_Witness ==
    /\ Len(out) = MaxWrites
    /\ \A i \in DOMAIN out : out[i].err = ""
    /\ outputColumns[1].HasOutputPath /\ outputColumns[1].OutputPath = <<>>
    /\ outputColumns[2].HasOutputPath /\ Len(outputColumns[2].OutputPath) = 2
    /\ DOMAIN objects[inputs[1]] = {ColumnNames[1], ColumnNames[2]}
    /\ LET v1 == objects[inputs[1]][ColumnNames[1]]
           key == outputColumns[2].OutputPath[1].v
       IN  /\ v1.isMap
           /\ key \in DOMAIN objects[v1.ref]
           /\ objects[v1.ref][key].isMap

\* C20: any two runs of buildNestedData on the same columns and the same row
\* data, whatever order the maps are iterated in, both fail or both succeed,
\* and when they succeed their records are structurally equal.
C20_BuildNestedDataDeterministic ==
    \A i \in DOMAIN out, j \in DOMAIN out :
       (out[i].op = "WriteRow" /\ out[j].op = "WriteRow") =>
          /\ (out[i].err = "") <=> (out[j].err = "")
          /\ out[i].err = "" => SameTree(objects, out[i].ref, out[j].ref)

\* two runs on the same row that met the keys of a map in different orders:
\* both failed, on different keys
C20_Witness ==
    /\ Len(out) >= 2
    /\ out[1].op = "WriteRow" /\ out[2].op = "WriteRow"
    /\ out[1].err = "field conflict" /\ out[2].err = "field conflict"
    /\ out[1].key # out[2].key

\* C21: splicing at the empty path merges the value into the root: a value
\* that is not a map makes the splice fail and return no record; a map value
\* yields the deep-merge of root and value, every key of the value at top
\* level, unless the merge reports a field conflict.
C21_EmptyPathMergesIntoRoot ==
    (out # <<>> /\ out[1].op = "mergeNestedValue" /\ out[1].path = <<>>) =>
       IF ~out[1].value.isMap
       THEN out[1].err # "" /\ out[1].ref = 0
       ELSE IF ConflictKeys(objects, out[1].root, out[1].value.ref) = {}
       THEN /\ out[1].err = ""
            /\ IsMergeOf(objects, out[1].ref, out[1].root, out[1].value.ref)
            /\ DOMAIN objects[out[1].value.ref] \subseteq DOMAIN objects[out[1].ref]
       ELSE out[1].err = "field conflict" /\ out[1].ref = 0

\* a map of two keys spliced at the empty path into a root that has none of
\* them at top level: both keys are in the record
C21_Witness ==
    /\ out # <<>>
    /\ out[1].op = "mergeNestedValue"
    /\ out[1].path = <<>>
    /\ out[1].value.isMap
    /\ out[1].err = ""
    /\ DOMAIN objects[out[1].root] = {}
    /\ DOMAIN objects[out[1].ref] = Keys

----------------------------------------------------------------------------
\* internal/writer/split.go: SplitRowWriter over an IPv4 and an IPv6 sink.
\* A sink is None (a nil rowWriter) or the record of the optional methods it
\* implements besides WriteRow; any call on a sink can return an error.

Sinks == {None} \cup [ranges : BOOLEAN, flushes : BOOLEAN]

selected_AlwaysIPv4(ver) == [ver |-> 4, sink |-> ipv4]

\* `if prefix.Addr().Is4()` / `if start.Is4()`: the sink a call is routed to
selected(ver) ==
    IF ver = 4 THEN [ver |-> 4, sink |-> ipv4] ELSE [ver |-> 6, sink |-> ipv6]

NoWriter(ver) ==
    IF ver = 4 THEN "no IPv4 writer configured" ELSE "no IPv6 writer configured"

\* a call of SplitRowWriter, as recorded in ret
SplitCall(op, start, end, bits, data, err) ==
    [op |-> op, start |-> start, end |-> end, bits |-> bits, data |-> data,
     err |-> err]

\* the calls on sink ver that `intended` sets out to make, when call number
\* failAt returns an error (failAt = 0: none does): the failing call is the
\* last one made
SinkCalls(ver, intended, failAt) ==
    [i \in 1..(IF failAt = 0 THEN Len(intended) ELSE failAt) |->
        [ver |-> ver, op |-> intended[i].op, start |-> intended[i].start,
         end |-> intended[i].end, bits |-> intended[i].bits,
         data |-> intended[i].data, ok |-> (i # failAt)]]

\* SplitRowWriter.WriteRow(prefix, data)
SplitWriteRow ==
    /\ pc = "split"
    /\ ret = None
    /\ \E v \in Versions, data \in DataMaps :
          \E prefix \in PrefixesFrom(v, 0) :
             LET sel == selected(prefix.Addr.ver)
                 row == Call("WriteRow", prefix.Addr, PrefixLastIP(prefix), prefix.Bits, data)
             IN  IF sel.sink = None
                 THEN /\ sinkCalls' = sinkCalls
                      /\ ret' = SplitCall("WriteRow", row.start, row.end, row.bits, data,
                                          NoWriter(sel.ver))
                 ELSE \E failAt \in 0..1 :
                         /\ sinkCalls' = sinkCalls \o SinkCalls(sel.ver, <<row>>, failAt)
                         /\ ret' = SplitCall("WriteRow", row.start, row.end, row.bits, data,
                                             IF failAt = 0 THEN "" ELSE "sink error")
    /\ UNCHANGED <<accumulator, pc, driver, builder, ipv4, ipv6, walker, adjacency, extraction, pooling>>

rangeCalls_AlwaysCIDRs(sink, start, end, data) ==
    LET cidrs == Prefixes(start, end)
    IN  [i \in 1..Len(cidrs) |->
            Call("WriteRow", cidrs[i].Addr, PrefixLastIP(cidrs[i]), cidrs[i].Bits, data)]

\* SplitRowWriter.WriteRange on a configured sink: the sink's own WriteRange
\* when it implements it, otherwise one WriteRow per CIDR of the range
rangeCalls(sink, start, end, data) ==
    IF sink.ranges
    THEN <<Call("WriteRange", start, end, NoBits, data)>>
    ELSE LET cidrs == Prefixes(start, end)
         IN  [i \in 1..Len(cidrs) |->
                Call("WriteRow", cidrs[i].Addr, PrefixLastIP(cidrs[i]), cidrs[i].Bits, data)]

\* SplitRowWriter.WriteRange(start, end, data); the accumulator passes a
\* start and an end of one IP version with start <= end
SplitWriteRange ==
    /\ pc = "split"
    /\ ret = None
    /\ \E v \in Versions, data \in DataMaps :
          \E a \in 0..MaxAddrN, b \in 0..MaxAddrN :
             /\ a <= b
             /\ LET sel == selected(v)
                IN  IF sel.sink = None
                    THEN /\ sinkCalls' = sinkCalls
                         /\ ret' = SplitCall("WriteRange", Addr(v, a), Addr(v, b), NoBits,
                                             data, NoWriter(sel.ver))
                    ELSE LET intended == rangeCalls(sel.sink, Addr(v, a), Addr(v, b), data)
                         IN  \E failAt \in 0..Len(intended) :
                                /\ sinkCalls' = sinkCalls \o SinkCalls(sel.ver, intended, failAt)
                                /\ ret' = SplitCall("WriteRange", Addr(v, a), Addr(v, b),
                                                    NoBits, data,
                                                    IF failAt = 0 THEN "" ELSE "sink error")
    /\ UNCHANGED <<accumulator, pc, driver, builder, ipv4, ipv6, walker, adjacency, extraction, pooling>>

\* the sinks whose Flush SplitRowWriter.Flush sets out to call, in order
flushers ==
    SelectSeq(<<[ver |-> 4, sink |-> ipv4], [ver |-> 6, sink |-> ipv6]>>,
              LAMBDA f : f.sink # None /\ f.sink.flushes)

\* SplitRowWriter.Flush(): returns at the first sink whose Flush fails
SplitFlush ==
    /\ pc = "split"
    /\ ret = None
    /\ \E failAt \in 0..Len(flushers) :
          /\ sinkCalls' = sinkCalls \o
                [i \in 1..(IF failAt = 0 THEN Len(flushers) ELSE failAt) |->
                    [ver |-> flushers[i].ver, op |-> "Flush", start |-> None,
                     end |-> None, bits |-> NoBits, data |-> <<>>, ok |-> (i # failAt)]]
          /\ ret' = SplitCall("Flush", None, None, NoBits, <<>>,
                              IF failAt = 0 THEN "" ELSE "sink error")
    /\ UNCHANGED <<accumulator, pc, driver, builder, ipv4, ipv6, walker, adjacency, extraction, pooling>>

\* NewSplitRowWriter(ipv4, ipv6) over any two sinks
InitSplit ==
    /\ NoAccumulator
    /\ NoDriver
    /\ NoBuilder
    /\ NoWalker /\ NoAdjacency /\ NoExtraction /\ NoPooling
    /\ pc = "split"
    /\ ipv4 \in Sinks
    /\ ipv6 \in Sinks
    /\ sinkCalls = <<>>
    /\ ret = None

NextSplit == SplitWriteRow \/ SplitWriteRange \/ SplitFlush

SpecSplit == InitSplit /\ [][NextSplit]_vars

\* the sink configured for IP version ver
SinkOf(ver) == IF ver = 4 THEN ipv4 ELSE ipv6

\* the calls made on the sink of IP version ver
CallsOn(ver) == SelectSeq(sinkCalls, LAMBDA c : c.ver = ver)

\* C22: SplitRowWriter.WriteRow hands the row to the sink of the prefix's IP
\* version and to no other: that sink gets exactly one WriteRow with the same
\* prefix and data, the other sink gets no call, and the sink's error is the
\* call's error; when the sink of the row's version is not configured the
\* call returns an error and no sink is called.
C22_WriteRowRoutedByVersion ==
    (ret # None /\ ret.op = "WriteRow") =>
       LET ver == ret.start.ver
       IN  IF SinkOf(ver) = None
           THEN ret.err = NoWriter(ver) /\ sinkCalls = <<>>
           ELSE /\ Len(sinkCalls) = 1
                /\ CallsOn(10 - ver) = <<>>
                /\ sinkCalls[1].ver = ver
                /\ sinkCalls[1].op = "WriteRow"
                /\ sinkCalls[1].start = ret.start
                /\ sinkCalls[1].bits = ret.bits
                /\ sinkCalls[1].data = ret.data
                /\ (ret.err = "") <=> sinkCalls[1].ok

\* an IPv6 row written while both sinks are configured
C22_Witness ==
    /\ ret # None
    /\ ret.op = "WriteRow"
    /\ ret.start.ver = 6
    /\ ret.err = ""
    /\ ipv4 # None /\ ipv6 # None
    /\ Len(CallsOn(6)) = 1

\* C23: SplitRowWriter.WriteRange uses the sink of the start address's IP
\* version only.  A sink with a WriteRange of its own gets exactly one
\* WriteRange with the same start, end and data and no WriteRow.  Any other
\* sink gets one WriteRow per CIDR of the range, in order, each with the
\* data, up to the first call that fails.  WriteRange returns an error
\* exactly when the sink is not configured or a call on it failed.
C23_WriteRangeNativeOrCIDRs ==
    (ret # None /\ ret.op = "WriteRange") =>
       LET ver == ret.start.ver
           cidrs == Prefixes(ret.start, ret.end)
       IN  IF SinkOf(ver) = None
           THEN ret.err = NoWriter(ver) /\ sinkCalls = <<>>
           ELSE /\ CallsOn(10 - ver) = <<>>
                /\ \A i \in 1..(Len(sinkCalls) - 1) : sinkCalls[i].ok
                /\ sinkCalls # <<>>
                /\ (ret.err = "") <=> sinkCalls[Len(sinkCalls)].ok
                /\ IF SinkOf(ver).ranges
                   THEN /\ Len(sinkCalls) = 1
                        /\ sinkCalls[1].op = "WriteRange"
                        /\ sinkCalls[1].start = ret.start
                        /\ sinkCalls[1].end = ret.end
                        /\ sinkCalls[1].data = ret.data
                   ELSE /\ Len(sinkCalls) <= Len(cidrs)
                        /\ ret.err = "" => Len(sinkCalls) = Len(cidrs)
                        /\ \A i \in 1..Len(sinkCalls) :
                              /\ sinkCalls[i].op = "WriteRow"
                              /\ sinkCalls[i].start = cidrs[i].Addr
                              /\ sinkCalls[i].bits = cidrs[i].Bits
                              /\ sinkCalls[i].data = ret.data

\* a range of several CIDRs written row by row to a sink without WriteRange
C23_Witness ==
    /\ ret # None
    /\ ret.op = "WriteRange"
    /\ ret.err = ""
    /\ ~SinkOf(ret.start.ver).ranges
    /\ Len(sinkCalls) >= 2
    /\ ret.data # <<>>

\* C24: every call of SplitRowWriter.Flush calls Flush, once, on each of the
\* two sinks that implements it, and returns an error whenever one of these
\* calls fails.
C24_FlushReachesEverySink ==
    (ret # None /\ ret.op = "Flush") =>
       /\ \A ver \in Versions :
             Len(CallsOn(ver)) =
                IF SinkOf(ver) # None /\ SinkOf(ver).flushes THEN 1 ELSE 0
       /\ (\E i \in DOMAIN sinkCalls : ~sinkCalls[i].ok) => ret.err # ""

----------------------------------------------------------------------------
\* walkPath and the paths it is given.  A decoded value is a scalar, a map
\* (mmdbtype.Map) or a sequence (mmdbtype.Slice); walkPath only reads it.

MaxPathLen == 2
MaxNormalize == 2

Leaf(str) == [kind |-> "scalar", s |-> str, m |-> <<>>, l |-> <<>>]
MapValue(f) == [kind |-> "map", s |-> "", m |-> f, l |-> <<>>]
SliceValue(q) == [kind |-> "slice", s |-> "", m |-> <<>>, l |-> q]
NilValue == [kind |-> "nil", s |-> "", m |-> <<>>, l |-> <<>>]

WalkKeys == {"a", "b"}

\* the values below the root of a record: a scalar, a sequence of up to two
\* scalars, a map of scalars
Nested ==
    {Leaf("x")}
    \cup {SliceValue(<<>>), SliceValue(<<Leaf("x")>>), SliceValue(<<Leaf("x"), Leaf("y")>>)}
    \cup {MapValue([k \in S |-> Leaf(k)]) : S \in SUBSET WalkKeys}

\* decoded records: a map whose key "a" holds any nested value and whose key
\* "b" holds a scalar, either key possibly absent
DecodedRecords ==
    {MapValue([k \in S |-> IF k = "a" THEN v ELSE Leaf("y")]) :
        S \in SUBSET WalkKeys, v \in Nested}

\* the segments a path can hold on a platform with the given int values
PathSegments(ints) ==
    {Segment("string", k, 0) : k \in WalkKeys}
    \cup {Segment("int", "", i) : i \in ints}
    \cup {Segment("int64", "", i) : i \in Int64s}
    \cup {Segment("float64", "", 0)}

RawPaths(ints) == UNION {[1..k -> PathSegments(ints)] : k \in 0..MaxPathLen}

\* what walkPath returns: an error, or nil ("missing"), or the value found
WalkError(msg) == [err |-> msg, found |-> FALSE, value |-> NilValue]
Missing == [err |-> "", found |-> FALSE, value |-> NilValue]
Found(v) == [err |-> "", found |-> TRUE, value |-> v]

sliceIndex_AsIs(key, len) == key

\* `idx := key; if idx < 0 { idx = len(s) + idx }`
sliceIndex(key, len) == IF key < 0 THEN len + key ELSE key

RECURSIVE walkFrom(_, _, _)
\* walkPath's loop over the segments, from segment i on
walkFrom(cur, path, i) ==
    IF i > Len(path) THEN Found(cur)
    ELSE LET segment == path[i]
         IN  IF segment.type = "string"
             THEN IF cur.kind # "map" THEN WalkError("expected map")
                  ELSE IF segment.s \notin DOMAIN cur.m THEN Missing
                  ELSE walkFrom(cur.m[segment.s], path, i + 1)
             ELSE IF segment.type = "int"
             THEN IF cur.kind # "slice" THEN WalkError("expected slice")
                  ELSE LET idx == sliceIndex(segment.n, Len(cur.l))
                       IN  IF idx < 0 \/ idx >= Len(cur.l) THEN Missing
                           ELSE walkFrom(cur.l[idx + 1], path, i + 1)
             ELSE WalkError("unsupported segment type")

\* walkPath(root, path)
walkPath(root, path) ==
    IF Len(path) = 0 THEN Found(root) ELSE walkFrom(root, path, 1)

\* the path as it stands: as configured, or as last normalised
CurrentPath == IF norms = <<>> THEN rawPath ELSE norms[Len(norms)].segments

\* normalizeSegments applied to the path as it stands
Normalize ==
    /\ pc = "path"
    /\ Len(norms) < MaxNormalize
    /\ norms # <<>> => norms[Len(norms)].err = ""
    /\ norms' = Append(norms, normalizeSegments(CurrentPath))
    /\ UNCHANGED <<accumulator, pc, driver, builder, splitter, native, rawPath,
                   decoded, walks, adjacency, extraction, pooling>>

\* walkPath applied to the record and the path as it stands
Walk ==
    /\ pc = "path"
    /\ norms # <<>> => norms[Len(norms)].err = ""
    /\ \A w \in walks : w.level # Len(norms)
    /\ LET r == walkPath(decoded, CurrentPath)
       IN  walks' = walks \cup {[level |-> Len(norms), err |-> r.err,
                                 found |-> r.found, value |-> r.value]}
    /\ UNCHANGED <<accumulator, pc, driver, builder, splitter, native, rawPath,
                   decoded, norms, adjacency, extraction, pooling>>

\* a configured path and a decoded record, on either platform
InitPath ==
    /\ NoAccumulator
    /\ NoDriver
    /\ NoBuilder
    /\ NoSplitter
    /\ NoAdjacency /\ NoExtraction /\ NoPooling
    /\ pc = "path"
    /\ native \in {Int64s, NarrowInts}
    /\ rawPath \in RawPaths(native)
    /\ decoded \in DecodedRecords
    /\ norms = <<>>
    /\ walks = {}

NextPath == Normalize \/ Walk

SpecPath == InitPath /\ [][NextPath]_vars

C26_EmptyPathIsAnError ==
    (rawPath = <<>> /\ norms # <<>>) => norms[1].err # ""

\* C27: for a non-empty path normalizeSegments fails exactly when some
\* segment is neither a string nor an integer or an integer is outside the
\* platform's int; otherwise it returns a path of the same length in which
\* every string segment is unchanged and every integer segment is an int of
\* the same value, negative values included.
C27_NormalizeKeepsOrRejects ==
    (rawPath # <<>> /\ norms # <<>>) =>
       /\ norms[1].err # "" <=>
             \E i \in DOMAIN rawPath :
                \/ rawPath[i].type \notin {"string", "int", "int64"}
                \/ rawPath[i].type \in {"int", "int64"} /\ rawPath[i].n \notin native
       /\ norms[1].err = "" =>
             /\ Len(norms[1].segments) = Len(rawPath)
             /\ \A i \in DOMAIN rawPath :
                   IF rawPath[i].type = "string"
                   THEN norms[1].segments[i] = rawPath[i]
                   ELSE /\ norms[1].segments[i].type = "int"
                        /\ norms[1].segments[i].n = rawPath[i].n
                        /\ norms[1].segments[i].n \in native

\* a key followed by a negative int64 index, normalised
C27_Witness ==
    /\ Len(rawPath) = 2
    /\ rawPath[1].type = "string"
    /\ rawPath[2].type = "int64" /\ rawPath[2].n < 0
    /\ norms # <<>>
    /\ norms[1].err = ""

\* C28: a path that normalises normalises again, and walking a record along
\* the path normalised once and along the path normalised twice returns the
\* same.
C28_NormaliseIdempotentForWalk ==
    (norms # <<>> /\ norms[1].err = "") =>
       /\ \A i \in DOMAIN norms : norms[i].err = ""
       /\ \A w1 \in walks, w2 \in walks :
             (w1.level >= 1 /\ w2.level >= 1) =>
                /\ w1.err = w2.err
                /\ w1.found = w2.found
                /\ w1.value = w2.value

\* a path with an int64 index, walked to a value after one and after two
\* normalisations
C28_Witness ==
    /\ \E i \in DOMAIN rawPath : rawPath[i].type = "int64"
    /\ Len(norms) = 2
    /\ \E w1 \in walks, w2 \in walks :
          w1.level = 1 /\ w2.level = 2 /\ w1.found /\ w2.found

RECURSIVE Expect(_, _, _)
\* what consuming the segments of path from segment i on, left to right,
\* yields at node: a string segment needs a map and takes the key's value, an
\* integer segment needs a sequence and takes element n (from the end when
\* negative); an absent key or an index out of bounds is "missing"
Expect(node, path, i) ==
    IF i > Len(path) THEN Found(node)
    ELSE IF path[i].type = "string"
    THEN IF node.kind # "map" THEN WalkError("type mismatch")
         ELSE IF path[i].s \in DOMAIN node.m THEN Expect(node.m[path[i].s], path, i + 1)
         ELSE Missing
    ELSE IF node.kind # "slice" THEN WalkError("type mismatch")
         ELSE LET n == Len(node.l)
                  e == IF path[i].n >= 0 THEN path[i].n ELSE n + path[i].n
              IN  IF 0 <= e /\ e < n THEN Expect(node.l[e + 1], path, i + 1)
                  ELSE Missing

\* C29: walkPath consumes the segments left to right: the empty path returns
\* the whole record; a string segment on a map takes the key's value, an
\* absent key is "missing" without error; an integer segment on a sequence of
\* length n takes element i, or n+i for negative i, an index out of bounds is
\* "missing" without error; a string segment on a non-map or an integer
\* segment on a non-sequence is an error; the record is never modified.
C29_WalkPathLeftToRight ==
    /\ [](\A w \in walks :
             LET path == IF w.level = 0 THEN rawPath ELSE norms[w.level].segments
                 e == Expect(decoded, path, 1)
             IN  (\A i \in DOMAIN path : path[i].type \in {"string", "int"}) =>
                    /\ (w.err # "") <=> (e.err # "")
                    /\ w.found = e.found
                    /\ w.value = e.value
                    /\ path = <<>> => (w.found /\ w.value = decoded))
    /\ [][decoded' = decoded]_vars

\* a walk that took the last element of a sequence of two by a negative index
C29_Witness ==
    \E w \in walks :
       LET path == IF w.level = 0 THEN rawPath ELSE norms[w.level].segments
       IN  /\ w.found
           /\ Len(path) = 2
           /\ path[2].type = "int" /\ path[2].n = 0 - 1
           /\ w.value = Leaf("y")

(* ---- network.IsAdjacent on any two addresses ---- *)

\* IsAdjacent of split.go, which adds 1 to the IPv4 address as a uint32
CallIsAdjacent ==
    /\ pc = "adjacent"
    /\ \A v \in verdicts : v.copy # "uint32"
    /\ verdicts' = verdicts \cup
          {[copy |-> "uint32", adjacent |-> IsAdjacent(pair.endIP, pair.startIP)]}
    /\ UNCHANGED <<accumulator, pc, driver, builder, splitter, walker, pair, extraction, pooling>>

\* IsAdjacent of the other copy of the package, which uses Addr.Next
CallIsAdjacentByNext ==
    /\ pc = "adjacent"
    /\ \A v \in verdicts : v.copy # "Next"
    /\ verdicts' = verdicts \cup
          {[copy |-> "Next", adjacent |-> IsAdjacentByNext(pair.endIP, pair.startIP)]}
    /\ UNCHANGED <<accumulator, pc, driver, builder, splitter, walker, pair, extraction, pooling>>

\* any two addresses of either version
InitAdjacent ==
    /\ NoAccumulator
    /\ NoDriver
    /\ NoBuilder
    /\ NoSplitter
    /\ NoWalker /\ NoExtraction /\ NoPooling
    /\ pc = "adjacent"
    /\ \E v \in Versions, w \in Versions, k \in 0..MaxAddrN, l \in 0..MaxAddrN :
          pair = [endIP |-> Addr(v, k), startIP |-> Addr(w, l)]
    /\ verdicts = {}

NextAdjacent == CallIsAdjacent \/ CallIsAdjacentByNext

SpecAdjacent == InitAdjacent /\ [][NextAdjacent]_vars

\* C30: IsAdjacent(end, start) is true exactly when start is the immediate
\* successor of end within the same IP version: true for (a, a+1) with a not
\* maximal, false for every other pair, the maximal IPv4 address followed by
\* 0.0.0.0 included, and false across IP versions.
C30_AdjacentIffSuccessor ==
    \A v \in verdicts :
       v.adjacent <=> /\ pair.endIP.ver = pair.startIP.ver
                      /\ pair.endIP.n < MaxAddrN
                      /\ pair.startIP.n = pair.endIP.n + 1

(* ---- network.SmallestNetwork on any two prefixes ---- *)

\* SmallestNetwork(a, b)
CallSmallestNetwork ==
    /\ pc = "smallest"
    /\ \A v \in verdicts : v.order # "ab"
    /\ verdicts' = verdicts \cup
          {[order |-> "ab", smallest |-> SmallestNetwork(pair.a, pair.b)]}
    /\ UNCHANGED <<accumulator, pc, driver, builder, splitter, walker, pair, extraction, pooling>>

\* SmallestNetwork(b, a)
CallSmallestNetworkSwapped ==
    /\ pc = "smallest"
    /\ \A v \in verdicts : v.order # "ba"
    /\ verdicts' = verdicts \cup
          {[order |-> "ba", smallest |-> SmallestNetwork(pair.b, pair.a)]}
    /\ UNCHANGED <<accumulator, pc, driver, builder, splitter, walker, pair, extraction, pooling>>

\* any two netip.Prefix values, masked or not, of either version
InitSmallest ==
    /\ NoAccumulator
    /\ NoDriver
    /\ NoBuilder
    /\ NoSplitter
    /\ NoWalker /\ NoExtraction /\ NoPooling
    /\ pc = "smallest"
    /\ \E v \in Versions, w \in Versions, k \in 0..MaxAddrN, l \in 0..MaxAddrN,
          c \in 0..AddrBits, d \in 0..AddrBits :
          pair = [a |-> MkPrefix(v, k, c), b |-> MkPrefix(w, l, d)]
    /\ verdicts = {}

NextSmallest == CallSmallestNetwork \/ CallSmallestNetworkSwapped

SpecSmallest == InitSmallest /\ [][NextSmallest]_vars

\* C31 as stated: SmallestNetwork(a, b) is the prefix of the longer bit length
\* when the lengths differ, and when a.bits = b.bits SmallestNetwork(a, b) =
\* SmallestNetwork(b, a).
C31_SmallestIsSymmetricOnTies ==
    /\ \A v \in verdicts :
          pair.a.Bits # pair.b.Bits =>
             v.smallest = (IF pair.a.Bits > pair.b.Bits THEN pair.a ELSE pair.b)
    /\ \A v \in verdicts, w \in verdicts :
          pair.a.Bits = pair.b.Bits => v.smallest = w.smallest

\* C31: SmallestNetwork(a, b) is the prefix of the longer bit length when the
\* lengths differ; when a.bits = b.bits it is its first argument, so that
\* SmallestNetwork(a, b) = SmallestNetwork(b, a) exactly when a = b, which is
\* the case for two overlapping masked prefixes of equal length.
C31_SmallestTiesReturnFirst ==
    LET Masked(p) == p.Addr.n % Pow2(AddrBits - p.Bits) = 0
        Overlap == /\ pair.a.Addr.ver = pair.b.Addr.ver
                   /\ pair.a.Addr.n \div Pow2(AddrBits - pair.a.Bits)
                         = pair.b.Addr.n \div Pow2(AddrBits - pair.a.Bits)
    IN  /\ \A v \in verdicts :
              IF pair.a.Bits # pair.b.Bits
              THEN v.smallest = (IF pair.a.Bits > pair.b.Bits THEN pair.a ELSE pair.b)
              ELSE v.smallest = (IF v.order = "ab" THEN pair.a ELSE pair.b)
        /\ \A v \in verdicts, w \in verdicts :
              (pair.a.Bits = pair.b.Bits /\ v.order # w.order) =>
                 (v.smallest = w.smallest <=> pair.a = pair.b)
        /\ (pair.a.Bits = pair.b.Bits /\ Masked(pair.a) /\ Masked(pair.b) /\ Overlap)
              => pair.a = pair.b

\* two different prefixes of equal length, SmallestNetwork called both ways
C31_Witness ==
    /\ pair # None
    /\ pc = "smallest"
    /\ pair.a.Bits = pair.b.Bits
    /\ pair.a # pair.b
    /\ Cardinality(verdicts) = 2

(* ---- Merger.extractAndProcess, in both copies of package merger ---- *)

MaxExtract == 2

\* the records a database holds: two maps and a record that is not a map
ExtractRecords ==
    {MapValue([k \in {"a"} |-> Leaf("x")]),
     MapValue([k \in WalkKeys |-> IF k = "a" THEN MapValue([j \in {"a"} |-> Leaf("a")])
                                  ELSE Leaf("y")]),
     Leaf("x")}

\* a maxminddb.Result: no record for the network, a record that fails to
\* decode, or a record
ExtractResults ==
    {[Found |-> FALSE, corrupt |-> FALSE, record |-> NilValue],
     [Found |-> TRUE, corrupt |-> TRUE, record |-> NilValue]}
    \cup {[Found |-> TRUE, corrupt |-> FALSE, record |-> r] : r \in ExtractRecords}

\* the normalised paths of the columns
ExtractPaths ==
    {<<>>, <<Segment("string", "a", 0)>>, <<Segment("string", "b", 0)>>,
     <<Segment("string", "a", 0), Segment("string", "a", 0)>>}

\* the smallest element of a non-empty set of indices
First(S) == CHOOSE i \in S : \A j \in S : i <= j

(* the copy of part_006: every record decoded once, columns read by walkPath *)

\* step 1: result.Decode on every result in turn, up to the first error; a
\* value that is not a map leaves decodedRecords[i] nil
decodeRecords(results) ==
    LET bad == {i \in 1..Len(results) : results[i].corrupt}
    IN  IF bad # {}
        THEN [err |-> "decoding database",
              decodes |-> [i \in 1..Len(results) |-> IF i <= First(bad) THEN 1 ELSE 0],
              decodedRecords |-> <<>>]
        ELSE [err |-> "",
              decodes |-> [i \in 1..Len(results) |-> 1],
              decodedRecords |-> [i \in 1..Len(results) |->
                  IF results[i].Found /\ results[i].record.kind = "map"
                  THEN results[i].record ELSE NilValue]]

\* step 2 for one extractor: what it reads from the decoded records
extractColumn(extractor, decodedRecords) ==
    IF extractor.reader = None THEN WalkError("database not found for column")
    ELSE IF extractor.dbIndex < 1 \/ extractor.dbIndex > Len(decodedRecords) THEN Missing
    ELSE IF decodedRecords[extractor.dbIndex] = NilValue THEN Missing
    ELSE walkPath(decodedRecords[extractor.dbIndex], extractor.path)

clearSlice_Keep(slice) == slice

\* clear(m.workingSlice)
clearSlice(slice) == [i \in 1..Len(slice) |-> NilValue]

\* step 2: the working slice is cleared and filled extractor by extractor, up
\* to the first extractor whose walk fails
fillSlice(extractors, decodedRecords, slice) ==
    LET bad == {j \in 1..Len(extractors) :
                   extractColumn(extractors[j], decodedRecords).err # ""}
        upto == IF bad = {} THEN Len(extractors) ELSE First(bad) - 1
        cleared == clearSlice(slice)
    IN  [err |-> IF bad = {} THEN "" ELSE "decoding path for column",
         slice |-> [j \in 1..Len(slice) |->
                      IF j <= upto /\ extractColumn(extractors[j], decodedRecords).found
                      THEN extractColumn(extractors[j], decodedRecords).value
                      ELSE cleared[j]]]

\* the map of the columns of a vector that are not missing
SliceData(extractors, slice) ==
    [c \in {extractors[j].name : j \in {i \in 1..Len(slice) : slice[i] # NilValue}} |->
        slice[CHOOSE j \in 1..Len(slice) : extractors[j].name = c]]

(* the copy of merger.go: every column decoded by Result.DecodePath *)

\* result.DecodePath(unmarshaler, path...) and unmarshaler.Result(): nothing
\* when the result has no record, else the value at the path of the record
DecodePath(result, path) ==
    IF result.corrupt THEN WalkError("decoding path for column")
    ELSE IF ~result.Found THEN Missing
    ELSE walkFrom(result.record, path, 1)

\* what the loop over the extractors reads for one extractor
decodeColumn(extractor, results) ==
    IF extractor.reader = None THEN WalkError("database not found for column")
    ELSE IF extractor.dbIndex < 1 \/ extractor.dbIndex > Len(results) THEN Missing
    ELSE DecodePath(results[extractor.dbIndex], extractor.path)

\* the loop over the extractors, up to the first whose DecodePath fails:
\* the data map, and the DecodePath calls made on each result
decodeColumns(extractors, results) ==
    LET bad == {j \in 1..Len(extractors) : decodeColumn(extractors[j], results).err # ""}
        upto == IF bad = {} THEN Len(extractors) ELSE First(bad)
        present == {j \in 1..Len(extractors) : decodeColumn(extractors[j], results).found}
    IN  [err |-> IF bad = {} THEN "" ELSE "decoding path for column",
         decodes |-> [i \in 1..Len(results) |->
                        Cardinality({j \in 1..upto : extractors[j].dbIndex = i
                                                     /\ extractors[j].reader # None})],
         values |-> [j \in 1..Len(extractors) |->
                       IF j \in present THEN decodeColumn(extractors[j], results).value
                       ELSE NilValue],
         data |-> [c \in {extractors[j].name : j \in present} |->
                     decodeColumn(extractors[CHOOSE j \in present :
                                                extractors[j].name = c], results).value]]

\* the effective prefix of the next row: one address after the other
ExtractPrefix == MkPrefix(ipVersion, Len(fed), AddrBits)

\* extractAndProcess returned an error before it reached the accumulator
ExtractFailed(op) ==
    /\ last' = [op |-> op, err |-> TRUE]
    /\ pc' = "failed"
    /\ UNCHANGED <<ipVersion, includeEmptyRows, hasWriteRange, current, heap, fed,
                   calls, lastFlush, nflush, failsLeft, nextIP, overwrites, handed>>

\* extractAndProcess of merger.go on the results of one effective prefix
ExtractAndProcess ==
    /\ pc = "extract"
    /\ build = "DecodePath"
    /\ Len(fed) < MaxExtract
    /\ \E results \in [1..Len(merger.readersList) -> ExtractResults] :
          LET r == decodeColumns(merger.extractors, results)
          IN  IF r.err # ""
              THEN ExtractFailed("extractAndProcess")
              ELSE /\ Process(ExtractPrefix, r.data)
                   /\ handed' = Append(handed, [results |-> results, values |-> r.values,
                                                decodes |-> r.decodes])
                   /\ pc' = IF last'.err THEN "failed" ELSE "extract"
    /\ UNCHANGED <<driver, builder, splitter, walker, adjacency, build, workingSlice,
                   pooling>>

\* extractAndProcess of part_006 on the results of one effective prefix
ExtractAndProcessCached ==
    /\ pc = "extract"
    /\ build = "walkPath"
    /\ Len(fed) < MaxExtract
    /\ \E results \in [1..Len(merger.readersList) -> ExtractResults] :
          LET d == decodeRecords(results)
              f == fillSlice(merger.extractors, d.decodedRecords, workingSlice)
          IN  IF d.err # ""
              THEN ExtractFailed("Decode") /\ UNCHANGED workingSlice
              ELSE /\ workingSlice' = f.slice
                   /\ IF f.err # ""
                      THEN ExtractFailed("walkPath")
                      ELSE /\ Process(ExtractPrefix, SliceData(merger.extractors, f.slice))
                           /\ handed' = Append(handed, [results |-> results,
                                                        values |-> f.slice,
                                                        decodes |-> d.decodes])
                           /\ pc' = IF last'.err THEN "failed" ELSE "extract"
    /\ UNCHANGED <<driver, builder, splitter, walker, adjacency, build, pooling>>

\* a Merger of one or two columns over one or two databases, of either copy
InitExtract ==
    /\ NoAccumulator
    /\ NoBuilder
    /\ NoSplitter
    /\ NoWalker /\ NoAdjacency /\ NoPooling
    /\ pc = "extract"
    /\ build \in {"DecodePath", "walkPath"}
    /\ \E n \in 1..2 :
          config \in {c \in [1..n -> [Name : {ColumnNames[1], ColumnNames[2]},
                                      Database : {DBNames[1], DBNames[2]},
                                      Path : ExtractPaths]] :
                         /\ c[1].Database = DBNames[1]
                         /\ \A i \in 1..n : c[i].Name = ColumnNames[i]}
    /\ readers = [db \in {DBNames[1], DBNames[2]} |->
                    [IPVersion |-> 4, nets |-> {MkPrefix(4, 0, 0)},
                     found |-> {MkPrefix(4, 0, 0)}]]
    /\ merger = NewMerger(config, readers)
    /\ pending = <<>>
    /\ workingSlice = [i \in 1..Len(config) |-> NilValue]
    /\ handed = <<>>

NextExtract == ExtractAndProcess \/ ExtractAndProcessCached

SpecExtract == InitExtract /\ [][NextExtract]_vars

\* C32: in every row handed to the accumulator the value of column j is the
\* walk of column j's path in the record of column j's database among the
\* results of that row, and is missing when that database has no record
\* there, the record is not a map or the path is absent; nothing extracted
\* for an earlier row remains.
C32_ColumnsFromCurrentRowOnly ==
    \A r \in 1..Len(handed) :
       /\ Len(handed[r].values) = Len(merger.extractors)
       /\ \A j \in 1..Len(merger.extractors) :
             LET result == handed[r].results[merger.extractors[j].dbIndex]
                 walked == Expect(result.record, merger.extractors[j].path, 1)
             IN  handed[r].values[j] =
                    (IF result.Found /\ result.record.kind = "map" /\ walked.found
                     THEN walked.value ELSE NilValue)

\* C33: for every row handed to the accumulator record decoding was invoked
\* exactly once for each of the N readers, whatever the number of columns
\* that read from a database.
C33_OneDecodePerDatabase ==
    \A r \in 1..Len(handed) :
       /\ Len(handed[r].decodes) = Len(merger.readersList)
       /\ \A i \in 1..Len(merger.readersList) : handed[r].decodes[i] = 1

(* ---- NewMerger and Merge with columns that share databases ---- *)

\* one to three columns over two opened databases, in any order of use
InitOrder ==
    /\ NoAccumulator
    /\ NoBuilder
    /\ NoSplitter
    /\ NoWalker /\ NoAdjacency /\ NoExtraction /\ NoPooling
    /\ pc = "new"
    /\ \E n \in 1..Len(ColumnNames) :
          config \in {c \in [1..n -> [Name : {ColumnNames[i] : i \in 1..n},
                                      Database : {DBNames[1], DBNames[2]},
                                      Path : {<<>>}]] :
                         \A i \in 1..n : c[i].Name = ColumnNames[i]}
    /\ readers \in [{DBNames[1], DBNames[2]} -> Databases(ipVersion, ipVersion)]
    /\ merger = None
    /\ pending = <<>>

SpecOrder == InitOrder /\ [][NextN]_vars

\* C34: after successful construction the reader list holds each database the
\* columns use exactly once, in first-use order over the columns; every
\* column's dbIndex lies within the list (1..N here, 0..N-1 in the code) and
\* readersList[dbIndex] is the reader of the column's database; and every
\* result list the nested iteration hands over has length N, results[i]
\* being a result of readersList[i].
C34_ReadersInFirstUseOrder ==
    (merger # None /\ merger.err = "") =>
       LET N == Len(merger.readersList)
           firstUse(db) == CHOOSE i \in 1..Len(config) :
                              /\ config[i].Database = db
                              /\ \A j \in 1..(i - 1) : config[j].Database # db
       IN  /\ Len(merger.dbNamesList) = N
           /\ {merger.dbNamesList[i] : i \in 1..N}
                 = {config[j].Database : j \in 1..Len(config)}
           /\ \A a \in 1..N, b \in 1..N :
                 a < b => firstUse(merger.dbNamesList[a]) < firstUse(merger.dbNamesList[b])
           /\ \A i \in 1..N : merger.readersList[i] = readers[merger.dbNamesList[i]]
           /\ Len(merger.extractors) = Len(config)
           /\ \A j \in 1..Len(config) :
                 /\ merger.extractors[j].dbIndex \in 1..N
                 /\ merger.readersList[merger.extractors[j].dbIndex]
                       = readers[config[j].Database]
           /\ \A r \in 1..Len(pending) :
                 /\ Len(pending[r].results) = N
                 /\ \A i \in 1..N :
                       /\ pending[r].results[i].Prefix \in merger.readersList[i].nets
                       /\ pending[r].results[i].Found
                             = (pending[r].results[i].Prefix \in merger.readersList[i].found)

\* three columns, the second database used first and by two columns, over
\* two readers that divide the address space differently
C34_Witness ==
    /\ merger # None
    /\ merger.err = ""
    /\ Len(config) = 3
    /\ config[1].Database = DBNames[2]
    /\ config[2].Database = DBNames[1]
    /\ config[3].Database = DBNames[2]
    /\ readers[DBNames[1]].nets # readers[DBNames[2]].nets
    /\ Len(pending) >= 2

(* ---- the open range of the Accumulator ---- *)

\* C35: every reachable accumulator state holds at most one open range, and
\* an open range has a start and an end of one IP version with
\* start <= end, the caller feeding ascending prefixes of one IP version.
C35_OpenRangeIsValid ==
    \/ current = None
    \/ /\ DOMAIN current = {"StartIP", "EndIP", "Data"}
       /\ current.StartIP.ver = current.EndIP.ver
       /\ current.StartIP.ver = ipVersion
       /\ current.StartIP.n <= current.EndIP.n
       /\ current.EndIP.n <= MaxAddrN
       /\ current.Data \in 1..Len(heap)

\* an open range that a second row has extended
C35_Witness ==
    /\ current # None
    /\ Len(fed) = 2
    /\ fed[2].how = "extend"
    /\ current.StartIP = fed[1].prefix.Addr
    /\ current.EndIP = PrefixLastIP(fed[2].prefix)
    /\ current.StartIP.n < current.EndIP.n

\* C36: one Process call emits at most one accumulated range, and only when
\* a range was open and the new row is not adjacent to it or differs in
\* data; the range emitted is the one that was open, never the row just
\* received, which is held as the open range after the call.
C36_ProcessEmitsOnlyThePreviousRange ==
    [][fed' # fed =>
         LET row == fed'[Len(fed')]
             emitted == [i \in 1..(Len(calls') - Len(calls)) |-> calls'[Len(calls) + i]]
         IN  /\ nflush' \in {nflush, nflush + 1}
             /\ nflush' = nflush => emitted = <<>>
             /\ nflush' = nflush + 1 =>
                   /\ current # None
                   /\ \/ ~IsAdjacent(current.EndIP, row.prefix.Addr)
                      \/ ~dataEquals(heap[current.Data], row.data)
                   /\ lastFlush'.StartIP = current.StartIP
                   /\ lastFlush'.EndIP = current.EndIP
                   /\ lastFlush'.Data = heap[current.Data]
                   /\ \A i \in 1..Len(emitted) :
                         /\ emitted[i].fid = nflush + 1
                         /\ emitted[i].data = heap[current.Data]
                         /\ current.StartIP.n <= emitted[i].start.n
                         /\ emitted[i].end.n <= current.EndIP.n
                         /\ emitted[i].end.n < row.prefix.Addr.n
             /\ (~row.err /\ row.how # "skip") =>
                   /\ current' # None
                   /\ current'.EndIP = PrefixLastIP(row.prefix)
                   /\ current'.StartIP.n <= row.prefix.Addr.n
                   /\ heap'[current'.Data] = row.data
    ]_vars

\* a third row of other data made Process emit the range of the first two
C36_Witness ==
    /\ Len(fed) = 3
    /\ fed[2].how = "extend"
    /\ fed[3].how = "flush"
    /\ ~fed[3].err
    /\ nflush = 1
    /\ lastFlush.StartIP = fed[1].prefix.Addr
    /\ lastFlush.EndIP = PrefixLastIP(fed[2].prefix)
    /\ current # None
    /\ current.StartIP = fed[3].prefix.Addr

\* C37: with includeEmptyRows false a dropped empty row breaks coalescing:
\* two rows of equal data that only a dropped empty row separates are
\* emitted as two ranges, and no emitted row holds an address of a dropped
\* row.
C37_DroppedRowBreaksCoalescing ==
    ~includeEmptyRows =>
       /\ \A i \in 1..Len(fed) :
             fed[i].data = <<>> =>
                \A c \in 1..Len(calls) :
                   \/ calls[c].end.n < fed[i].prefix.Addr.n
                   \/ PrefixLastIP(fed[i].prefix).n < calls[c].start.n
       /\ \A i \in 1..(Len(fed) - 2) :
             (/\ fed[i].data # <<>>
              /\ fed[i + 1].data = <<>>
              /\ fed[i + 2].data = fed[i].data) =>
                /\ fed[i + 2].how = "flush"
                /\ \A c \in 1..Len(calls) :
                      ~(/\ calls[c].start.n <= PrefixLastIP(fed[i].prefix).n
                        /\ fed[i + 2].prefix.Addr.n <= calls[c].end.n)

\* two rows of equal data around a dropped empty row, all three adjacent,
\* after Merge has written both ranges
C37_Witness ==
    /\ ~includeEmptyRows
    /\ pc = "done"
    /\ Len(fed) = 3
    /\ fed[1].data # <<>>
    /\ fed[2].how = "skip"
    /\ fed[3].data = fed[1].data
    /\ fed[2].prefix.Addr.n = PrefixLastIP(fed[1].prefix).n + 1
    /\ fed[3].prefix.Addr.n = PrefixLastIP(fed[2].prefix).n + 1
    /\ nflush = 2
    /\ \A c \in 1..Len(calls) : calls[c].ok

(* ---- mergeMaps on equal values ---- *)

\* C38: mergeMaps reports a field conflict for a key present on both sides
\* whenever one of the two values is not a map, even when the two values are
\* equal: two maps holding the same scalar under the same key do not merge.
C38_EqualScalarsConflict ==
    (out # <<>> /\ out[1].op = "mergeMaps") =>
       LET d == out[1].root
           s == out[1].value.ref
           shared == {k \in (DOMAIN objects[d]) \cap (DOMAIN objects[s]) :
                         ~(objects[d][k].isMap /\ objects[s][k].isMap)}
       IN  shared # {} =>
              /\ out[1].err = "field conflict"
              /\ out[1].ref = 0
              /\ (\A k \in (DOMAIN objects[d]) \cap (DOMAIN objects[s]) : k \in shared)
                    => out[1].key \in shared

\* two different map objects with the same scalar under their only shared
\* key, whose merge failed naming that key
C38_Witness ==
    /\ out # <<>>
    /\ out[1].op = "mergeMaps"
    /\ out[1].root # out[1].value.ref
    /\ out[1].err = "field conflict"
    /\ \E k \in Keys :
          /\ (DOMAIN objects[out[1].root]) \cap (DOMAIN objects[out[1].value.ref]) = {k}
          /\ ~objects[out[1].root][k].isMap
          /\ objects[out[1].root][k] = objects[out[1].value.ref][k]
          /\ out[1].key = k

(* ---- slicePool ---- *)

MaxPool == 2
MaxSize == 2

\* the buffers a caller can hold: any length, any contents
Buffers == UNION {[1..n -> {NilValue, Leaf("x")}] : n \in 0..(MaxSize + 1)}

\* newSlicePool(size)
newSlicePool(size) == [size |-> size, pool |-> <<>>]

\* sync.Pool.New of the pool: make([]mmdbtype.DataType, size)
NewBuffer(size) == [i \in 1..size |-> NilValue]

\* the sequence q without its element i
Without(q, i) == [j \in 1..(Len(q) - 1) |-> IF j < i THEN q[j] ELSE q[j + 1]]

\* slicePool.Get: sync.Pool hands out one of the buffers it holds, or a new
\* one (it may have dropped what it held); Get clears the buffer
PoolGet ==
    /\ pc = "pool"
    /\ \/ \E i \in 1..Len(slicePool.pool) :
             /\ slicePool' = [slicePool EXCEPT !.pool = Without(slicePool.pool, i)]
             /\ lastPool' = [op |-> "Get", s |-> clearSlice(slicePool.pool[i]),
                             was |-> slicePool.pool[i], accepted |-> FALSE]
       \/ /\ slicePool' = slicePool
          /\ lastPool' = [op |-> "Get", s |-> clearSlice(NewBuffer(slicePool.size)),
                          was |-> NewBuffer(slicePool.size), accepted |-> FALSE]
    /\ UNCHANGED <<accumulator, pc, driver, builder, splitter, walker, adjacency,
                   extraction>>

\* the test of slicePool.Put
poolAccepts(p, s) == Len(s) = p.size

\* slicePool.Put(s): the buffer goes back as it is when its length is the
\* pool's size
PoolPut ==
    /\ pc = "pool"
    /\ \E s \in Buffers :
          /\ poolAccepts(slicePool, s) => Len(slicePool.pool) < MaxPool
          /\ slicePool' = IF poolAccepts(slicePool, s)
                          THEN [slicePool EXCEPT !.pool = Append(slicePool.pool, s)]
                          ELSE slicePool
          /\ lastPool' = [op |-> "Put", s |-> s, was |-> s,
                          accepted |-> poolAccepts(slicePool, s)]
    /\ UNCHANGED <<accumulator, pc, driver, builder, splitter, walker, adjacency,
                   extraction>>

\* newSlicePool(len(cfg.Columns))
InitPool ==
    /\ NoAccumulator
    /\ NoDriver
    /\ NoBuilder
    /\ NoSplitter
    /\ NoWalker /\ NoAdjacency /\ NoExtraction
    /\ pc = "pool"
    /\ \E size \in 0..MaxSize : slicePool = newSlicePool(size)
    /\ lastPool = None

NextPool == PoolGet \/ PoolPut

SpecPool == InitPool /\ [][NextPool]_vars

\* C39: a buffer obtained from the slice pool has the configured length and
\* every slot missing, whatever it held when it went into the pool; a buffer
\* of another length is never accepted into the pool.
C39_PooledBuffersComeBackCleared ==
    /\ \A i \in 1..Len(slicePool.pool) : Len(slicePool.pool[i]) = slicePool.size
    /\ lastPool # None =>
          /\ lastPool.op = "Get" =>
                /\ Len(lastPool.s) = slicePool.size
                /\ \A j \in 1..Len(lastPool.s) : lastPool.s[j] = NilValue
          /\ lastPool.op = "Put" =>
                (lastPool.accepted <=> Len(lastPool.s) = slicePool.size)

\* Get returned, cleared, a buffer that went into the pool with a value in
\* every slot
C39_Witness ==
    /\ lastPool # None
    /\ lastPool.op = "Get"
    /\ Len(lastPool.was) = MaxSize
    /\ \A j \in 1..Len(lastPool.was) : lastPool.was[j] # NilValue
    /\ \A j \in 1..Len(lastPool.s) : lastPool.s[j] = NilValue

====
